---- MODULE Spec2Model ----
(***************************************************************************)
(* A model of the AI Chatter chat app: the chat history ledger, the        *)
(* message handler and the chat commands.                                  *)
(*                                                                         *)
(* Text is modelled as a sequence of one-character strings so that trim,   *)
(* startsWith, split and the regular expressions of the command parser     *)
(* are computed as the code computes them.  Times are milliseconds since   *)
(* the epoch.  Every handler is one atomic step: an execution of the Apps  *)
(* Script runs one event from start to end.                                *)
(*                                                                         *)
(* The ledger follows History.ts: getHistory loads, prunes, adds the       *)
(* incoming message and sorts; saveHistory is its save loop followed by    *)
(* pruneHistories.  The callers in AIChatter.ts and Commands.ts call the   *)
(* two apart and pass getHistory the flag that leaves the message out.     *)
(***************************************************************************)
EXTENDS Integers, Sequences, FiniteSets, TLC

VARIABLES
    properties,   \* the script properties: key -> value
    now,          \* the clock read by millisNow()
    lastCreate,   \* createTime of the newest message delivered so far
    last          \* the request handled last and what was returned for it

vars == <<properties, now, lastCreate, last>>

(***************************************************************************)
(* Bounds of the model                                                     *)
(***************************************************************************)
\* minutes between two readings of the clock
TickMinutes == 31
\* the clock stops after this many ticks
MaxTicks == 2
\* a chat message is accepted only while the stored ledger is shorter
MaxMessages == 3
\* at most this many leading save attempts are rejected by the store
MaxSaveFails == 1
\* the events handled in a behaviour
MaxEvents == 2
\* the time a handler takes, in milliseconds
HandleMillis == 1

(***************************************************************************)
(* Text                                                                    *)
(***************************************************************************)
Lowers == <<"a","b","c","d","e","f","g","h","i","j","k","l","m",
            "n","o","p","q","r","s","t","u","v","w","x","y","z">>
Uppers == <<"A","B","C","D","E","F","G","H","I","J","K","L","M",
            "N","O","P","Q","R","S","T","U","V","W","X","Y","Z">>
Digits == {"0","1","2","3","4","5","6","7","8","9"}
Range(s) == {s[i] : i \in DOMAIN s}
Letters == Range(Lowers) \cup Range(Uppers)
\* \s of a regular expression and the characters removed by trim()
IsSpace(c) == c \in {" ", "\t", "\n", "\r"}
\* [A-Za-z_]
IsIdentStart(c) == c \in Letters \cup {"_"}
\* \w
IsWord(c) == c \in Letters \cup Digits \cup {"_"}

\* String.prototype.toLowerCase, one character
LowerChar(c) ==
    IF \E i \in DOMAIN Uppers : Uppers[i] = c
    THEN Lowers[CHOOSE i \in DOMAIN Uppers : Uppers[i] = c]
    ELSE c
toLowerCase(s) == [i \in DOMAIN s |-> LowerChar(s[i])]

\* String.prototype.trim
RECURSIVE trimStart(_)
trimStart(s) ==
    IF s # <<>> /\ IsSpace(Head(s)) THEN trimStart(Tail(s)) ELSE s
RECURSIVE trimEnd(_)
trimEnd(s) ==
    IF s # <<>> /\ IsSpace(s[Len(s)]) THEN trimEnd(SubSeq(s, 1, Len(s) - 1)) ELSE s
trim(s) == trimEnd(trimStart(s))

\* String.prototype.startsWith
startsWith(s, p) == Len(s) >= Len(p) /\ SubSeq(s, 1, Len(p)) = p

\* the number of leading characters of s that satisfy \w
RECURSIVE WordRun(_)
WordRun(s) == IF s # <<>> /\ IsWord(Head(s)) THEN 1 + WordRun(Tail(s)) ELSE 0

\* the text after the first n characters
Drop(s, n) == SubSeq(s, n + 1, Len(s))

\* the value JavaScript calls undefined
Undefined == <<"<undefined>">>

\* an optional number that is not given, a given one being <<value>>
NotGiven == <<>>

(***************************************************************************)
(* Timestamp.ts                                                            *)
(***************************************************************************)
differenceMillis(timestamp1, timestamp2) == timestamp1 - timestamp2
minutesToMillis(minutes) == minutes * 60 * 1000
TickMillis == minutesToMillis(TickMinutes)

(***************************************************************************)
(* Properties.ts: the script properties.  A history is kept as the JSON    *)
(* text of a ChatHistory under "_history/<space name>"; JSON.stringify and *)
(* JSON.parse return the same numbers and strings, so the stored value is  *)
(* the ChatHistory itself.                                                 *)
(***************************************************************************)
PROP_OPENAI_API_KEY == <<"O","P","E","N","A","I","_","A","P","I","_","K","E","Y">>
PROP_ADMINS == <<"A","D","M","I","N","S">>
PROP_CHAT_COMPLETION_INIT ==
    <<"C","H","A","T","_","C","O","M","P","L","E","T","I","O","N","_","I","N","I","T">>
HISTORY_PREFIX == <<"_","h","i","s","t","o","r","y","/">>

hasProperty(props, property) == property \in DOMAIN props
getStringProperty(props, property) ==
    IF hasProperty(props, property) THEN props[property] ELSE Undefined
\* setStringProperty / setObjectProperty: the property store and its cached copy
setProperty(props, property, value) ==
    [k \in DOMAIN props \cup {property} |-> IF k = property THEN value ELSE props[k]]
deleteProperty(props, property) ==
    [k \in DOMAIN props \ {property} |-> props[k]]

(***************************************************************************)
(* History.ts                                                              *)
(***************************************************************************)
ROLE_USER == "user"
ROLE_ASSISTANT == "assistant"

\* History.ts getHistoryMillis: HISTORY_MINUTES is left at its default
HISTORY_MINUTES == 60
getHistoryMillis == minutesToMillis(HISTORY_MINUTES)

\* a stored value is kept as the object it parses to; a string that is no JSON
\* is kept as a record with the field "raw"
parses(value) == "raw" \notin DOMAIN value

\* getObjectProperty(property) throws the error of JSON.parse
getObjectPropertyThrows(props, property) ==
    hasProperty(props, property) /\ ~parses(props[property])

\* typeof space === "string" && Array.isArray(messages)
isChatHistory(obj) == {"space", "messages"} \subseteq DOMAIN obj

getHistoryPropertyKey(message) == HISTORY_PREFIX \o message.space.name

toChatHistoryMessage(message) ==
    [time |-> message.createTime, role |-> ROLE_USER, text |-> message.argumentText]

createChatHistory(message, skip) ==
    [space |-> message.space.name,
     messages |-> IF skip THEN <<>> ELSE <<toChatHistoryMessage(message)>>]

\* the loop of pruneHistory: the (1-based) index at which it breaks
RECURSIVE pruneIndex(_, _, _)
pruneIndex(messages, time, i) ==
    IF i <= Len(messages) /\ ~(differenceMillis(time, messages[i].time) <= getHistoryMillis)
    THEN pruneIndex(messages, time, i + 1)
    ELSE i

\* the first version of pruneHistory: breaks on age < historyMillis
RECURSIVE pruneIndexV1(_, _, _)
pruneIndexV1(messages, time, i) ==
    IF i <= Len(messages) /\ ~(differenceMillis(time, messages[i].time) < getHistoryMillis)
    THEN pruneIndexV1(messages, time, i + 1)
    ELSE i
pruneHistoryV1(messages, time) == Drop(messages, pruneIndexV1(messages, time, 1) - 1)

\* pruneHistory that removes one message too many
pruneHistoryOneMore(messages, time) == Drop(messages, pruneIndex(messages, time, 1))

\* pruneHistory that removes the first entry only, when it is expired
pruneHistoryFirst(messages, time) ==
    IF Len(messages) > 0 /\ differenceMillis(time, messages[1].time) > getHistoryMillis
    THEN Tail(messages)
    ELSE messages

\* pruneHistory: messages.splice(0, i)
pruneHistory(messages, time) == Drop(messages, pruneIndex(messages, time, 1) - 1)

\* whether a ledger holds an image command
hasImageCommand(history) == "imageCommand" \in DOMAIN history

\* the ledger without its image command
withoutImageCommand(history) == [f \in DOMAIN history \ {"imageCommand"} |-> history[f]]

\* an image command that is forgotten by age only
keepImageCommandByAge(history, time, skip) ==
    IF hasImageCommand(history)
       /\ differenceMillis(time, history.imageCommand.time) > getHistoryMillis
    THEN withoutImageCommand(history)
    ELSE history

\* an image command that is forgotten only when a message is added
keepImageCommandUntilChat(history, time, skip) ==
    IF hasImageCommand(history) /\ ~skip
    THEN withoutImageCommand(history)
    ELSE history

\* the image command of a ledger that getHistory returns: it is forgotten when
\* it is older than the history window, and when the message is added to the
\* ledger, which then is the last request of the space
keepImageCommand(history, time, skip) ==
    IF hasImageCommand(history)
       /\ (~skip \/ differenceMillis(time, history.imageCommand.time) > getHistoryMillis)
    THEN withoutImageCommand(history)
    ELSE history

\* Array.prototype.sort((h1, h2) => h1.time - h2.time), a stable sort
RECURSIVE insertByTime(_, _)
insertByTime(sorted, m) ==
    IF sorted = <<>> THEN <<m>>
    ELSE IF Head(sorted).time <= m.time
         THEN <<Head(sorted)>> \o insertByTime(Tail(sorted), m)
         ELSE <<m>> \o sorted
RECURSIVE sortByTimeRec(_)
sortByTimeRec(s) ==
    IF s = <<>> THEN <<>>
    ELSE insertByTime(sortByTimeRec(SubSeq(s, 1, Len(s) - 1)), s[Len(s)])

\* a getHistory that does not sort after adding the message
sortByTimeNone(s) == s

sortByTime(s) == sortByTimeRec(s)

\* getHistory that adds the message whatever skip is
getHistoryAppending(props, message, time, skip) ==
    LET historyProp == getHistoryPropertyKey(message)
        historyObj == props[historyProp]
    IN  IF hasProperty(props, historyProp) /\ isChatHistory(historyObj)
        THEN keepImageCommand(
                 [historyObj EXCEPT !.messages =
                     sortByTime(Append(pruneHistory(historyObj.messages, time),
                                       toChatHistoryMessage(message)))],
                 time, skip)
        ELSE createChatHistory(message, FALSE)

\* getHistory(message, skip): the stored history pruned, with the message
\* added and the messages sorted unless skip is set
getHistory(props, message, time, skip) ==
    LET historyProp == getHistoryPropertyKey(message)
        historyObj == props[historyProp]
    IN  IF hasProperty(props, historyProp) /\ isChatHistory(historyObj)
        THEN LET pruned == pruneHistory(historyObj.messages, time)
             IN  keepImageCommand(
                     [historyObj EXCEPT !.messages =
                         IF skip THEN pruned
                         ELSE sortByTime(Append(pruned, toChatHistoryMessage(message)))],
                     time, skip)
        ELSE createChatHistory(message, skip)

\* a splice that removes the newest entry
dropNewest(messages) == SubSeq(messages, 1, Len(messages) - 1)

\* history.messages.splice(0, 1): the oldest entry is removed
dropOldest(messages) == Tail(messages)

\* the save loop: while (!saved && history.messages.length > 0), one entry of
\* setOk for each attempt: TRUE when setObjectProperty returns, FALSE when it throws
RECURSIVE saveLoop(_, _, _)
saveLoop(messages, setOk, attempt) ==
    IF Len(messages) > 0
    THEN IF setOk[attempt]
         THEN [saved |-> TRUE, messages |-> messages, attempts |-> attempt]
         ELSE saveLoop(dropOldest(messages), setOk, attempt + 1)
    ELSE [saved |-> FALSE, messages |-> messages, attempts |-> attempt - 1]

\* the save of a ledger that holds an image command and no message: one set
saveImageCommand(setOk) ==
    [saved |-> setOk[1], messages |-> <<>>, attempts |-> 1]

DigitChars == <<"0","1","2","3","4","5","6","7","8","9">>
RECURSIVE decimal(_)
decimal(n) ==
    IF n < 10 THEN <<DigitChars[n + 1]>>
    ELSE decimal(n \div 10) \o <<DigitChars[(n % 10) + 1]>>

\* for (const propKey in Object.keys(props)): the names enumerated in an array
\* are its indices "0", "1", ...
forInNames(keys) == {decimal(i) : i \in 0 .. (Cardinality(keys) - 1)}

\* pruneHistories: deletes the expired and the invalid histories among the visited names
pruneHistories(props, time) ==
    LET visited == {propKey \in forInNames(DOMAIN props) : startsWith(propKey, HISTORY_PREFIX)}
        deleted == {propKey \in visited \cap DOMAIN props :
                       LET history == props[propKey]
                       IN  \/ ~isChatHistory(history)
                           \/ Len(history.messages) = 0
                           \/ differenceMillis(time, history.messages[Len(history.messages)].time)
                                  > getHistoryMillis}
    IN  [k \in DOMAIN props \ deleted |-> props[k]]

\* saveHistory(history): the save loop, deleteProperty when nothing was saved,
\* then pruneHistories.  deleteOk: whether deleteProperty returns
saveHistory(props, history, setOk, deleteOk, time) ==
    LET historyProp == HISTORY_PREFIX \o history.space
        loop == IF Len(history.messages) = 0 /\ hasImageCommand(history)
                THEN saveImageCommand(setOk)
                ELSE saveLoop(history.messages, setOk, 1)
        kept == [history EXCEPT !.messages = loop.messages]
        stored == IF loop.saved THEN setProperty(props, historyProp, kept)
                  ELSE IF deleteOk THEN deleteProperty(props, historyProp)
                  ELSE props
    IN  [properties |-> pruneHistories(stored, time),
         history |-> kept,
         saved |-> loop.saved,
         rejected |-> IF loop.saved THEN loop.attempts - 1 ELSE loop.attempts,
         thrown |-> FALSE]

(***************************************************************************)
(* Errors.ts                                                               *)
(***************************************************************************)
NoError == [class |-> "none", message |-> "", chatError |-> FALSE]
\* an error of a class that extends ChatError
ChatError(class, message) == [class |-> class, message |-> message, chatError |-> TRUE]
\* an error of any other class
OtherError(class, message) == [class |-> class, message |-> message, chatError |-> FALSE]
\* isChatError taking no error for a chat error
isChatErrorNever(err) == FALSE

isChatError(err) == err.chatError = TRUE

(***************************************************************************)
(* The inputs of the model                                                 *)
(***************************************************************************)
SpaceDm == [name |-> <<"D">>, singleUserBotDm |-> TRUE]
SpaceRoom == [name |-> <<"R">>, singleUserBotDm |-> FALSE]
Spaces == {SpaceDm, SpaceRoom}
U1 == <<"u","1">>
U2 == <<"u","2">>
Senders == {U1, U2}
TextHi == <<"h","i">>
TextBad == <<"b","a","d">>
TextOk == <<"o","k">>
TextEvil == <<"e","v","i","l">>
\* the texts the moderation API flags
FlaggedTexts == {TextBad, TextEvil}
\* what the chat completion API answers: an error response, or a choice with content
Fetches ==
    {[kind |-> "error", content |-> Undefined]}
    \cup {[kind |-> "content", content |-> c] : c \in {<<" ">> \o TextOk, TextEvil}}

(***************************************************************************)
(* Moderation (ChatCompletion.ts checkModeration) and OpenAIAPI            *)
(***************************************************************************)
\* getOpenAIAPIKey: if (apiKey) return apiKey; else throw
hasOpenAIAPIKey(props) ==
    hasProperty(props, PROP_OPENAI_API_KEY) /\ props[PROP_OPENAI_API_KEY] # <<>>

\* the results of the moderation API for an input
moderationResults(input) == <<[flagged |-> input \in FlaggedTexts]>>

\* checkModeration that does not look at the results of the moderation
checkModerationUnchecked(props, input, serviceUp) ==
    IF ~hasOpenAIAPIKey(props)
    THEN OtherError("OpenAIConfigurationError", "Missing mandatory script property: OPENAI_API_KEY")
    ELSE IF ~serviceUp
    THEN OtherError("ModerationError", "Error while doing moderation")
    ELSE NoError

\* checkModeration(input): the error it throws, NoError when it returns.
\* serviceUp: whether the moderation API answers with a moderation response
\* a moderation response: a list that is not empty of items that have the
\* boolean "flagged"
isModerationResponse(results) ==
    /\ Len(results) > 0
    /\ \A i \in DOMAIN results : "flagged" \in DOMAIN results[i]

\* checkModeration judging by the first item alone
checkModerationFirstItem(props, results, serviceUp) ==
    IF ~hasOpenAIAPIKey(props)
    THEN OtherError("OpenAIConfigurationError", "Missing mandatory script property: OPENAI_API_KEY")
    ELSE IF ~serviceUp \/ ~isModerationResponse(results)
    THEN OtherError("ModerationError", "Error while doing moderation")
    ELSE IF results[1].flagged # FALSE
    THEN ChatError("ModerationFlaggedError", "Content was flagged by moderation")
    ELSE NoError

\* checkModeration(input) when the service answers with the results
checkModerationOf(props, results, serviceUp) ==
    IF ~hasOpenAIAPIKey(props)
    THEN OtherError("OpenAIConfigurationError", "Missing mandatory script property: OPENAI_API_KEY")
    ELSE IF ~serviceUp \/ ~isModerationResponse(results)
    THEN OtherError("ModerationError", "Error while doing moderation")
    ELSE IF ~(\A i \in DOMAIN results : results[i].flagged = FALSE)
    THEN ChatError("ModerationFlaggedError", "Content was flagged by moderation")
    ELSE NoError

checkModeration(props, input, serviceUp) ==
    checkModerationOf(props, moderationResults(input), serviceUp)

(***************************************************************************)
(* ChatCompletion.ts                                                       *)
(***************************************************************************)
NoRequest == <<[role |-> "none", content |-> Undefined]>>

\* The configuration of the chat spaces: one property that maps the name of a
\* space to its entry, which holds when it was used and the instructions and
\* the temperature set for the space
PROP_CONFIGURATION == <<"_","c","o","n","f","i","g","u","r","a","t","i","o","n">>

NoConfigurations == [spaceName \in {} |-> Undefined]

getConfigurations(props) ==
    IF hasProperty(props, PROP_CONFIGURATION) THEN props[PROP_CONFIGURATION]
    ELSE NoConfigurations

hasConfiguration(props, spaceName) == spaceName \in DOMAIN getConfigurations(props)

\* getConfiguration(space)
getConfiguration(props, spaceName) ==
    IF hasConfiguration(props, spaceName)
    THEN getConfigurations(props)[spaceName]
    ELSE Undefined

\* getInstructions(space)
getInstructions(props, spaceName) ==
    IF ~hasConfiguration(props, spaceName) THEN Undefined
    ELSE getConfiguration(props, spaceName).instructions

\* a new entry: nothing is set
newConfiguration(time) == [used |-> time, instructions |-> Undefined, temperature |-> NotGiven]

\* whether an entry sets nothing
isEmptyConfiguration(conf) == conf.instructions = Undefined /\ conf.temperature = NotGiven

\* the configurations with the entry of a space replaced, an empty one too
withConfigurationKept(configurations, spaceName, conf) ==
    [name \in DOMAIN configurations \cup {spaceName} |->
        IF name = spaceName THEN conf ELSE configurations[name]]

\* the configurations with the entry of a space replaced, or removed when
\* the entry sets nothing
withConfiguration(configurations, spaceName, conf) ==
    IF isEmptyConfiguration(conf)
    THEN [name \in DOMAIN configurations \ {spaceName} |-> configurations[name]]
    ELSE [name \in DOMAIN configurations \cup {spaceName} |->
            IF name = spaceName THEN conf ELSE configurations[name]]

\* updateConfiguration(space, conf => { conf[field] = value })
updateConfiguration(props, spaceName, field, value, time) ==
    LET old == IF ~hasConfiguration(props, spaceName) THEN newConfiguration(time)
               ELSE getConfiguration(props, spaceName)
    IN  setProperty(props, PROP_CONFIGURATION,
                    withConfiguration(getConfigurations(props), spaceName,
                                      [old EXCEPT ![field] = value]))

\* removeConfigurationForSpace(space)
removeConfigurationForSpace(props, spaceName) ==
    IF hasConfiguration(props, spaceName)
    THEN setProperty(props, PROP_CONFIGURATION,
                     [name \in DOMAIN getConfigurations(props) \ {spaceName} |->
                        getConfigurations(props)[name]])
    ELSE props

\* getChatCompletionInit: the stored initialization sequence, or the empty default
getChatCompletionInit(props) ==
    IF hasProperty(props, PROP_CHAT_COMPLETION_INIT)
    THEN props[PROP_CHAT_COMPLETION_INIT]
    ELSE <<>>

toChatCompletionMessage(message) ==
    [role |-> IF message.role = ROLE_ASSISTANT THEN "assistant" ELSE "user",
     content |-> message.text]

\* the record that carries the instructions of a space, none when there are no
\* instructions or no space
instructionMessages(props, spaceName) ==
    IF getInstructions(props, spaceName) = Undefined THEN <<>>
    ELSE <<[role |-> "system", content |-> getInstructions(props, spaceName)]>>

\* the messages of a request with the initialization sequence at the end
toChatCompletionMessagesInitLast(props, messages, spaceName, skipInit) ==
    instructionMessages(props, spaceName)
    \o [i \in DOMAIN messages |-> toChatCompletionMessage(messages[i])]
    \o (IF skipInit THEN <<>> ELSE getChatCompletionInit(props))

\* toChatCompletionMessages(messages, skipInit) for the space of the messages
toChatCompletionMessagesOf(props, messages, spaceName, skipInit) ==
    (IF skipInit THEN <<>> ELSE getChatCompletionInit(props))
    \o instructionMessages(props, spaceName)
    \o [i \in DOMAIN messages |-> toChatCompletionMessage(messages[i])]

\* the messages of a request made for no space, with the initialization sequence
toChatCompletionMessages(props, messages) ==
    toChatCompletionMessagesOf(props, messages, Undefined, FALSE)

\* the response has no choice, or the content of its first choice is no string
noCompletionContent(fetch) == fetch.kind \in {"nochoice", "nostring"}

\* requestChatCompletion(messages, user): requestNativeChatCompletion pushes the
\* response message to messages, then the response text is moderated.
\* Gives the messages as they are left, the error thrown and the response text.
requestChatCompletion(props, messages, spaceName, skipInit, time, fetch, serviceUp) ==
    IF ~hasOpenAIAPIKey(props)
    THEN [messages |-> messages, request |-> NoRequest, completion |-> Undefined, text |-> Undefined,
          error |-> OtherError("OpenAIConfigurationError", "Missing mandatory script property: OPENAI_API_KEY")]
    ELSE LET request == toChatCompletionMessagesOf(props, messages, spaceName, skipInit)
         IN  IF fetch.kind = "error" \/ noCompletionContent(fetch)
             THEN [messages |-> messages, request |-> request, completion |-> Undefined,
                   text |-> Undefined,
                   error |-> ChatError("ChatCompletionError", "Error while performing chat completion")]
             ELSE LET responseText == trim(fetch.content)
                      responseMessage == [time |-> time, role |-> ROLE_ASSISTANT, text |-> responseText]
                      pushed == Append(messages, responseMessage)
                      moderation == checkModeration(props, responseText, serviceUp)
                  IN  IF moderation # NoError
                      THEN [messages |-> pushed, request |-> request, completion |-> responseText,
                            text |-> Undefined, error |-> moderation]
                      ELSE [messages |-> pushed, request |-> request, completion |-> responseText,
                            text |-> responseText, error |-> NoError]

\* saveHistory was not called
NoSave == [saved |-> FALSE, rejected |-> 0]

\* the store accepts a set after `fails` rejected attempts
SetOk(fails, n) == [i \in 1 .. n |-> i > fails]

(***************************************************************************)
(* Commands.ts                                                             *)
(***************************************************************************)
COMMAND_PREFIX == <<"/">>
INVALID_ARGS_MSG == "Invalid command arguments"
NoMatch == [matched |-> FALSE, name |-> Undefined, rest |-> Undefined]

\* PROPERTY_VALUE_REGEX = /^([A-Za-z_]\w*)(?:\s+(.*))?$/s : a name, then either
\* the end of the text or white space and the rest (Undefined when there is none)
matchPropertyValue(text) ==
    IF Len(text) = 0 \/ ~IsIdentStart(text[1])
    THEN NoMatch
    ELSE LET n == WordRun(text)
             after == Drop(text, n)
         IN  IF after = <<>>
             THEN [matched |-> TRUE, name |-> SubSeq(text, 1, n), rest |-> Undefined]
             ELSE IF IsSpace(after[1])
             THEN [matched |-> TRUE, name |-> SubSeq(text, 1, n), rest |-> trimStart(after)]
             ELSE NoMatch

\* COMMAND_REGEX = /^\/([A-Za-z_]\w*)(?:\s+(.*)|)$/s
matchCommand(text) ==
    IF startsWith(text, COMMAND_PREFIX) THEN matchPropertyValue(Drop(text, 1)) ELSE NoMatch

\* String.prototype.split with a string separator: the first position of the
\* separator in the text, 0 when it does not occur
indexOf(s, sep) ==
    LET found == {i \in 1 .. (Len(s) - Len(sep) + 1) : SubSeq(s, i, i + Len(sep) - 1) = sep}
    IN  IF found = {} THEN 0 ELSE CHOOSE i \in found : \A j \in found : i <= j

RECURSIVE split(_, _)
split(s, sep) ==
    LET i == indexOf(s, sep)
    IN  IF i = 0 THEN <<s>>
        ELSE <<SubSeq(s, 1, i - 1)>> \o split(Drop(s, i + Len(sep) - 1), sep)

\* the separator handed to split in getAdmins: a string, not a regular expression
ADMINS_SEPARATOR == <<"\\","s","*","[",",","\\","s","]","\\","s","*">>

getAdmins(props) ==
    LET adminsStr == getStringProperty(props, PROP_ADMINS)
    IN  IF adminsStr # Undefined /\ adminsStr # <<>> /\ trim(adminsStr) # <<>>
        THEN split(trim(adminsStr), ADMINS_SEPARATOR)
        ELSE <<>>

isAdmin(props, message) == message.sender.name \in Range(getAdmins(props))

\* checkAdmin that accepts an admin in any space
checkAdminAnywhere(props, message) ==
    IF ~isAdmin(props, message)
    THEN ChatError("UnauthorizedError", "Unauthorized for this command: ")
    ELSE NoError

\* checkAdmin that lets every sender of a one-to-one chat pass
checkAdminDmOnly(props, message) ==
    IF message.space.singleUserBotDm # TRUE
    THEN ChatError("CommandError",
                   "This command is only available in a direct messaging chat between an admin and a bot.")
    ELSE NoError

\* checkAdmin(message): the error it throws, NoError when it returns.
\* The message of the second error ends with the name of the sender.
checkAdmin(props, message) ==
    IF message.space.singleUserBotDm # TRUE
    THEN ChatError("CommandError",
                   "This command is only available in a direct messaging chat between an admin and a bot.")
    ELSE IF ~isAdmin(props, message)
    THEN ChatError("UnauthorizedError", "Unauthorized for this command: ")
    ELSE NoError

\* the text shown after a property is set or cleared, between its code fences
setResponse(key, value) ==
    key \o (IF value # Undefined THEN <<":"," ">> \o value ELSE <<" ","i","s"," ","u","n","d","e","f","i","n","e","d">>)

\* commandSet that sets or clears any key
commandSetAnyKey(props, arg, message) ==
    LET admin == checkAdmin(props, message)
        match == IF arg = Undefined THEN NoMatch ELSE matchPropertyValue(trim(arg))
    IN  IF admin # NoError
        THEN [properties |-> props, error |-> admin, text |-> Undefined]
        ELSE IF match.matched
        THEN LET key == match.name
                 value == IF match.rest # Undefined /\ match.rest # <<>> /\ trim(match.rest) # <<>>
                          THEN trim(match.rest) ELSE Undefined
             IN  IF FALSE
                 THEN [properties |-> props, text |-> Undefined,
                       error |-> ChatError("UnauthorizedError", "This property can not be set via chat")]
                 ELSE [properties |-> IF value # Undefined
                                      THEN setProperty(props, key, value)
                                      ELSE deleteProperty(props, key),
                       error |-> NoError, text |-> setResponse(key, value)]
        ELSE [properties |-> props, error |-> ChatError("CommandError", INVALID_ARGS_MSG),
              text |-> Undefined]

\* commandSet(arg, message)
commandSet(props, arg, message) ==
    LET admin == checkAdmin(props, message)
        match == IF arg = Undefined THEN NoMatch ELSE matchPropertyValue(trim(arg))
    IN  IF admin # NoError
        THEN [properties |-> props, error |-> admin, text |-> Undefined]
        ELSE IF match.matched
        THEN LET key == match.name
                 value == IF match.rest # Undefined /\ match.rest # <<>> /\ trim(match.rest) # <<>>
                          THEN trim(match.rest) ELSE Undefined
             IN  IF key = PROP_OPENAI_API_KEY \/ key = PROP_ADMINS \/ startsWith(key, <<"_">>)
                 THEN [properties |-> props, text |-> Undefined,
                       error |-> ChatError("UnauthorizedError", "This property can not be set via chat")]
                 ELSE [properties |-> IF value # Undefined
                                      THEN setProperty(props, key, value)
                                      ELSE deleteProperty(props, key),
                       error |-> NoError, text |-> setResponse(key, value)]
        ELSE [properties |-> props, error |-> ChatError("CommandError", INVALID_ARGS_MSG),
              text |-> Undefined]

(***************************************************************************)
(* Image.ts and the command "/image"                                       *)
(***************************************************************************)
\* supportedImageSizes, as widths and heights
supportedImageSizes ==
    <<[width |-> 256, height |-> 256], [width |-> 512, height |-> 512],
      [width |-> 1024, height |-> 1024]>>

\* what the image service answers: images, or an error response
ImageFetches == {"images", "error"}

NoImageRequest == [prompt |-> Undefined, n |-> 0, size |-> [width |-> 0, height |-> 0]]

\* the size requestImageGeneration chooses when none is given
defaultImageSize(n) ==
    IF n > 4 THEN supportedImageSizes[1]
    ELSE IF n > 1 THEN supportedImageSizes[2]
    ELSE supportedImageSizes[3]

\* requestImageGeneration that brings the count into the range 1 to 10
requestImageGenerationClamped(prompt, n, imageSize, imageFetch) ==
    LET given == IF n = NotGiven THEN 1 ELSE n[1]
        count == IF given < 1 THEN 1 ELSE IF given > 10 THEN 10 ELSE given
        size == IF imageSize = NotGiven THEN defaultImageSize(count) ELSE imageSize[1]
    IN  IF imageFetch = "error"
        THEN [image |-> [prompt |-> prompt, n |-> count, size |-> size], text |-> Undefined,
              error |-> ChatError("ImageGenerationError", "Error while doing image generation")]
        ELSE [image |-> [prompt |-> prompt, n |-> count, size |-> size],
              text |-> <<"\"">> \o prompt \o <<"\"">>, error |-> NoError]

\* requestImageGeneration(prompt, user, n, imageSize).  The request made, and
\* the error thrown if any
requestImageGeneration(prompt, n, imageSize, imageFetch) ==
    LET count == IF n = NotGiven THEN 1 ELSE n[1]
        size == IF imageSize = NotGiven THEN defaultImageSize(count) ELSE imageSize[1]
    IN  IF count < 1 \/ count > 10
        THEN [image |-> NoImageRequest, text |-> Undefined,
              error |-> ChatError("ImageGenerationError", "Option n must be an integer from 1 to 10")]
        ELSE IF imageFetch = "error"
        THEN [image |-> [prompt |-> prompt, n |-> count, size |-> size], text |-> Undefined,
              error |-> ChatError("ImageGenerationError", "Error while doing image generation")]
        ELSE [image |-> [prompt |-> prompt, n |-> count, size |-> size],
              text |-> <<"\"">> \o prompt \o <<"\"">>, error |-> NoError]

\* Number(digits) of a run of decimal digits
RECURSIVE toNumber(_)
toNumber(digits) ==
    IF digits = <<>> THEN 0
    ELSE 10 * toNumber(SubSeq(digits, 1, Len(digits) - 1))
         + ((CHOOSE d \in DOMAIN DigitChars : DigitChars[d] = digits[Len(digits)]) - 1)

\* \d+ at position i: the length of the longest run of digits that starts there
RECURSIVE digitRun(_, _)
digitRun(s, i) ==
    IF i <= Len(s) /\ s[i] \in Digits THEN 1 + digitRun(s, i + 1) ELSE 0

\* [nN]=(\d+) at position i: its length, 0 when it does not match there
countTokenLen(s, i) ==
    IF i + 1 <= Len(s) /\ s[i] \in {"n", "N"} /\ s[i + 1] = "=" /\ digitRun(s, i + 2) > 0
    THEN 2 + digitRun(s, i + 2)
    ELSE 0

\* (\d+)[xX](\d+) at position i: its length, 0 when it does not match there
sizeTokenLen(s, i) ==
    LET w == digitRun(s, i)
    IN  IF w > 0 /\ i + w <= Len(s) /\ s[i + w] \in {"x", "X"} /\ digitRun(s, i + w + 1) > 0
        THEN w + 1 + digitRun(s, i + w + 1)
        ELSE 0

\* /^(.*?\s|)TOKEN(\s.*|)$/s: the position and the length of the token that
\* matches, position 0 when none does.  The first alternative of the first
\* group is tried before the empty one, from its shortest match on: the token
\* follows white space, or else it starts the text; it is followed by white
\* space or ends the text
matchToken(s, token) ==
    LET tokenLen(t, i) == IF token = "count" THEN countTokenLen(t, i) ELSE sizeTokenLen(t, i)
        fits(i) == /\ tokenLen(s, i) > 0
                   /\ (i + tokenLen(s, i) > Len(s) \/ IsSpace(s[i + tokenLen(s, i)]))
        after == {i \in 2 .. Len(s) : IsSpace(s[i - 1]) /\ fits(i)}
        at == IF after # {} THEN CHOOSE i \in after : \A j \in after : i <= j
              ELSE IF Len(s) > 0 /\ fits(1) THEN 1
              ELSE 0
    IN  [at |-> at, len |-> IF at = 0 THEN 0 ELSE tokenLen(s, at)]

\* the text without the token matched: group 1 + the last group
withoutToken(s, match) ==
    SubSeq(s, 1, match.at - 1) \o Drop(s, match.at + match.len - 1)

\* snapImageSize that looks at the width only
snapImageSizeByWidth(width, height) ==
    LET matching == SelectSeq(supportedImageSizes, LAMBDA sz : sz.width >= width)
    IN  IF Len(matching) > 0 THEN matching[1]
        ELSE supportedImageSizes[Len(supportedImageSizes)]

\* the size chosen for a requested width and height
snapImageSize(width, height) ==
    LET matching == SelectSeq(supportedImageSizes,
                              LAMBDA sz : sz.width >= width /\ sz.height >= height)
    IN  IF Len(matching) > 0 THEN matching[1]
        ELSE supportedImageSizes[Len(supportedImageSizes)]

NoToken == [at |-> 0, len |-> 0]

\* prompt ? prompt.match(...) : undefined
matchTokenIn(prompt, token) ==
    IF prompt # Undefined /\ prompt # <<>> THEN matchToken(prompt, token) ELSE NoToken

\* the prompt after a match: group 1 + the last group, the prompt when none matched
stripToken(prompt, match) ==
    IF match.at # 0 THEN withoutToken(prompt, match) ELSE prompt

\* Number(matchN[2])
countOf(prompt, matchN) ==
    IF matchN.at # 0
    THEN <<toNumber(SubSeq(prompt, matchN.at + 2, matchN.at + matchN.len - 1))>>
    ELSE NotGiven

\* the size for Number(matchSize[2]) and Number(matchSize[3])
sizeOfWidth(prompt, matchSize, w) ==
    <<snapImageSize(toNumber(SubSeq(prompt, matchSize.at, matchSize.at + w - 1)),
                    toNumber(SubSeq(prompt, matchSize.at + w + 1,
                                    matchSize.at + matchSize.len - 1)))>>

sizeOf(prompt, matchSize) ==
    IF matchSize.at # 0
    THEN sizeOfWidth(prompt, matchSize, digitRun(prompt, matchSize.at))
    ELSE NotGiven

\* prompt?.trim()
trimOpt(prompt) == IF prompt = Undefined THEN Undefined ELSE trim(prompt)

parseSized(n, prompt, matchSize) ==
    [n |-> n, size |-> sizeOf(prompt, matchSize),
     prompt |-> trimOpt(stripToken(prompt, matchSize))]

parseSizeIn(n, prompt) == parseSized(n, prompt, matchTokenIn(prompt, "size"))

parseCounted(arg, matchN) == parseSizeIn(countOf(arg, matchN), stripToken(arg, matchN))

\* parseImageArg that looks for a size only when no count was given
parseImageArgOneToken(arg) ==
    IF matchTokenIn(arg, "count").at # 0
    THEN [n |-> countOf(arg, matchTokenIn(arg, "count")), size |-> NotGiven,
          prompt |-> trimOpt(stripToken(arg, matchTokenIn(arg, "count")))]
    ELSE parseSizeIn(NotGiven, arg)

\* the arguments of commandImage parsed: the count, the size and the prompt
parseImageArg(arg) == parseCounted(arg, matchTokenIn(arg, "count"))

NoImage ==
    [moderated |-> Undefined, image |-> NoImageRequest, save |-> NoSave, text |-> Undefined]

\* history.imageCommand = { time: millisNow(), arg: arg }
setImageCommand(history, time, arg) ==
    [f \in DOMAIN history \cup {"imageCommand"} |->
        IF f = "imageCommand" THEN [time |-> time, arg |-> arg] ELSE history[f]]

\* saveHistory(history) of commandImage
saveImageHistory(props, history, fails, deleteOk, time) ==
    saveHistory(props, history, SetOk(fails, Len(history.messages) + 1), deleteOk, time)

\* commandImage once the moderation has passed: what is stored, then what is requested
imageStored(save, generation, prompt) ==
    [properties |-> save.properties, moderated |-> prompt, image |-> generation.image,
     save |-> save, text |-> generation.text, error |-> generation.error]

\* imageChecked that stores the image command only when the images were generated
imageCheckedWhenGenerated(props, arg, parsed, moderation, message, time, imageFetch, fails, deleteOk) ==
    IF moderation # NoError
    THEN [NoImage EXCEPT !.moderated = parsed.prompt] @@
         [properties |-> props, error |-> moderation]
    ELSE LET generation == requestImageGeneration(parsed.prompt, parsed.n, parsed.size, imageFetch)
             save == saveImageHistory(props,
                                      setImageCommand(getHistory(props, message, time, TRUE),
                                                      time, arg),
                                      fails, deleteOk, time)
         IN  IF generation.error # NoError
             THEN [properties |-> props, moderated |-> parsed.prompt, image |-> generation.image,
                   save |-> save, text |-> generation.text, error |-> generation.error]
             ELSE imageStored(save, generation, parsed.prompt)

\* commandImage once it has its prompt
imageChecked(props, arg, parsed, moderation, message, time, imageFetch, fails, deleteOk) ==
    IF moderation # NoError
    THEN [NoImage EXCEPT !.moderated = parsed.prompt] @@
         [properties |-> props, error |-> moderation]
    ELSE imageStored(saveImageHistory(props,
                                      setImageCommand(getHistory(props, message, time, TRUE),
                                                      time, arg),
                                      fails, deleteOk, time),
                     requestImageGeneration(parsed.prompt, parsed.n, parsed.size, imageFetch),
                     parsed.prompt)

imageParsed(props, arg, parsed, message, time, inputUp, imageFetch, fails, deleteOk) ==
    IF arg # Undefined /\ arg # <<>> /\ parsed.prompt # <<>>
    THEN imageChecked(props, arg, parsed, checkModeration(props, parsed.prompt, inputUp),
                      message, time, imageFetch, fails, deleteOk)
    ELSE NoImage @@ [properties |-> props,
                     error |-> ChatError("CommandError", INVALID_ARGS_MSG)]

\* commandImage(arg, message); the stores of the model set no
\* IMAGE_PROMPT_TRANSLATION, with which the prompt is sent as it is
commandImage(props, arg, message, time, inputUp, imageFetch, fails, deleteOk) ==
    imageParsed(props, arg, parseImageArg(arg), message, time, inputUp, imageFetch, fails,
                deleteOk)

\* dropAssistantTail that removes one assistant response only
dropAssistantOnce(messages) ==
    IF Len(messages) > 0 /\ messages[Len(messages)].role = ROLE_ASSISTANT
    THEN SubSeq(messages, 1, Len(messages) - 1)
    ELSE messages

\* the messages without the assistant responses at their end
RECURSIVE dropAssistantTail(_)
dropAssistantTail(messages) ==
    IF Len(messages) > 0 /\ messages[Len(messages)].role = ROLE_ASSISTANT
    THEN dropAssistantTail(SubSeq(messages, 1, Len(messages) - 1))
    ELSE messages

\* a commandAgain that saves the ledger before the completion is requested
afterFailedCompletionSaved(props, save) == save.properties

\* requestChatCompletion threw: saveHistory is not reached
afterFailedCompletion(props, save) == props

\* commandAgain that looks at the chat entries only
commandAgainChatOnly(props, arg, message, time, inputUp, fetch, outputUp, imageFetch, fails, deleteOk) ==
    LET history == getHistory(props, message, time, TRUE)
        messages == dropAssistantTail(history.messages)
        completion == requestChatCompletion(props, messages, message.space.name, FALSE, time,
                                                        fetch, outputUp)
    IN  IF arg # Undefined \/ Len(messages) < 1 \/ completion.error # NoError
        THEN [properties |-> props, request |-> NoRequest, completion |-> Undefined,
              text |-> Undefined, save |-> NoSave, moderated |-> Undefined,
              image |-> NoImageRequest,
              error |-> ChatError("CommandError", INVALID_ARGS_MSG)]
        ELSE [properties |-> saveHistory(props, [history EXCEPT !.messages = completion.messages],
                                         SetOk(fails, Len(completion.messages)), deleteOk,
                                         time).properties,
              request |-> completion.request, completion |-> completion.completion,
              text |-> completion.text, save |-> NoSave, moderated |-> Undefined,
              image |-> NoImageRequest, error |-> NoError]

\* commandAgain(arg, message)
commandAgain(props, arg, message, time, inputUp, fetch, outputUp, imageFetch, fails, deleteOk) ==
    IF arg # Undefined
    THEN [properties |-> props, request |-> NoRequest, completion |-> Undefined,
          text |-> Undefined, save |-> NoSave, moderated |-> Undefined,
          image |-> NoImageRequest,
          error |-> ChatError("CommandError", INVALID_ARGS_MSG)]
    ELSE IF getObjectPropertyThrows(props, getHistoryPropertyKey(message))
    THEN [properties |-> props, request |-> NoRequest, completion |-> Undefined,
          text |-> Undefined, save |-> NoSave, moderated |-> Undefined,
          image |-> NoImageRequest,
          error |-> OtherError("SyntaxError", "Unexpected token in JSON")]
    ELSE LET history == getHistory(props, message, time, TRUE)
             messages == dropAssistantTail(history.messages)
         IN  IF hasImageCommand(history)
             THEN [request |-> NoRequest, completion |-> Undefined] @@
                  commandImage(props, history.imageCommand.arg, message, time, inputUp,
                               imageFetch, fails, deleteOk)
             ELSE IF Len(messages) < 1
             THEN [properties |-> props, request |-> NoRequest, completion |-> Undefined,
                   text |-> Undefined, save |-> NoSave, moderated |-> Undefined,
                   image |-> NoImageRequest,
                   error |-> ChatError("CommandError", "No chat history available to be repeated.")]
             ELSE LET completion == requestChatCompletion(props, messages, message.space.name, FALSE, time,
                                                        fetch, outputUp)
                      completed == [history EXCEPT !.messages = completion.messages]
                      save == saveHistory(props, completed,
                                          SetOk(fails, Len(completed.messages)), deleteOk, time)
                  IN  IF completion.error # NoError
                      THEN [properties |-> afterFailedCompletion(props, save), request |-> completion.request,
                            completion |-> completion.completion, text |-> Undefined,
                            save |-> NoSave, moderated |-> Undefined,
                            image |-> NoImageRequest, error |-> completion.error]
                      ELSE [properties |-> save.properties, request |-> completion.request,
                            completion |-> completion.completion, text |-> completion.text,
                            save |-> save, moderated |-> Undefined,
                            image |-> NoImageRequest, error |-> NoError]

\* checkForCommand that takes a text it cannot match for a chat message
checkForCommandLenient(text) ==
    LET match == matchCommand(trim(text))
    IN  IF ~startsWith(trim(text), COMMAND_PREFIX) \/ ~match.matched
        THEN [kind |-> "chat", cmd |-> Undefined, arg |-> Undefined]
        ELSE [kind |-> "command", cmd |-> toLowerCase(match.name), arg |-> match.rest]

\* checkForCommand(event), up to the choice of the command: the kind of the
\* text ("chat" when it is no command), the command name and its argument
checkForCommand(text) ==
    LET match == matchCommand(trim(text))
    IN  IF ~startsWith(trim(text), COMMAND_PREFIX)
        THEN [kind |-> "chat", cmd |-> Undefined, arg |-> Undefined]
        ELSE IF ~match.matched
        THEN [kind |-> "format", cmd |-> Undefined, arg |-> Undefined]
        ELSE [kind |-> "command", cmd |-> toLowerCase(match.name), arg |-> match.rest]

(***************************************************************************)
(* AIChatter.ts                                                            *)
(***************************************************************************)
GENERIC_ERROR_MSG == "Something went wrong..."

\* errorResponse showing the message of every error
errorResponseOwnMessage(err) == err.message

\* errorResponse(err): the message of the error card
errorResponse(err) == IF isChatError(err) THEN err.message ELSE GENERIC_ERROR_MSG

\* what an event record tells of the event before it
NoPrevious == [op |-> "none", pending |-> FALSE, error |-> "none"]

\* what is remembered of a handled event: the event, what the services were
\* asked, the error thrown if any, and the response returned to the user
Handled(op, message, inputUp, request, completion, err, text, save) ==
    [op |-> op, space |-> message.space.name, sender |-> message.sender.name,
     text |-> message.text, inputUp |-> inputUp, request |-> request,
     completion |-> completion, error |-> err.class,
     shown |-> IF err = NoError THEN "" ELSE errorResponse(err),
     response |-> text, saved |-> save.saved, rejected |-> save.rejected,
     moderated |-> Undefined, image |-> NoImageRequest,
     pending |-> FALSE, previous |-> NoPrevious,
     card |-> Undefined, logged |-> "none"]

\* onMessage that does not save the history when the completion fails
onMessageChatUnsaved(props, message, time, inputUp, fetch, outputUp, fails, deleteOk) ==
    LET moderation == checkModeration(props, message.text, inputUp)
    IN  IF moderation # NoError
        THEN [properties |-> props,
              last |-> Handled("chat", message, inputUp, NoRequest, Undefined, moderation, Undefined,
                               NoSave)]
        ELSE LET history == getHistory(props, message, time, FALSE)
                 completion == requestChatCompletion(props, history.messages, message.space.name,
                                                    FALSE, time, fetch, outputUp)
                 completed == [history EXCEPT !.messages = completion.messages]
                 save == saveHistory(props, completed, SetOk(fails, Len(completed.messages)), deleteOk, time)
             IN  [properties |-> IF completion.error # NoError THEN props ELSE save.properties,
                  last |-> Handled("chat", message, inputUp, completion.request,
                                   completion.completion, completion.error, completion.text,
                                   save)]

\* onMessage for a message that is not a command
onMessageChat(props, message, time, inputUp, fetch, outputUp, fails, deleteOk) ==
    LET moderation == checkModeration(props, message.text, inputUp)
    IN  IF moderation # NoError
        THEN [properties |-> props,
              last |-> Handled("chat", message, inputUp, NoRequest, Undefined, moderation, Undefined,
                               NoSave)]
        ELSE IF getObjectPropertyThrows(props, getHistoryPropertyKey(message))
        THEN [properties |-> props,
              last |-> Handled("chat", message, inputUp, NoRequest, Undefined,
                               OtherError("SyntaxError", "Unexpected token in JSON"), Undefined,
                               NoSave)]
        ELSE LET history == getHistory(props, message, time, FALSE)
                 completion == requestChatCompletion(props, history.messages, message.space.name,
                                                    FALSE, time, fetch, outputUp)
                 completed == [history EXCEPT !.messages = completion.messages]
                 save == saveHistory(props, completed, SetOk(fails, Len(completed.messages)), deleteOk, time)
             IN  [properties |-> save.properties,
                  last |-> Handled("chat", message, inputUp, completion.request,
                                   completion.completion, completion.error, completion.text,
                                   save)]

(***************************************************************************)
(* The state machine                                                       *)
(***************************************************************************)
ChatTexts == {TextHi, TextBad}
CmdSetKey == <<"/","s","e","t"," ","O","P","E","N","A","I","_","A","P","I","_","K","E","Y"," ","x">>
CmdSetAdmins == <<"/","s","e","t"," ","A","D","M","I","N","S"," ","u","2">>
CmdSetHidden == <<"/","s","e","t"," ","_","h"," ","x">>
CmdClearAdmins == <<"/","s","e","t"," ","A","D","M","I","N","S">>
CmdSetFoo == <<" ","/","S","E","T"," ","F","O","O"," "," ","b"," ">>
CmdClearFoo == <<"/","s","e","t"," ","F","O","O">>
CmdAgain == <<"/","a","g","a","i","n">>
CmdAgainArg == <<"/","a","g","a","i","n"," ","x">>
CommandTexts ==
    {CmdSetKey, CmdSetAdmins, CmdClearAdmins, CmdSetHidden, CmdSetFoo, CmdClearFoo,
     CmdAgain, CmdAgainArg}
Texts == ChatTexts \cup CommandTexts
CMD_SET == <<"s","e","t">>
CMD_AGAIN == <<"a","g","a","i","n">>
ChatSpaces == {SpaceRoom}
ChatSenders == {U2}

\* what the services do while one event is handled: whether the moderation of
\* the input answers, what the completion answers, whether the moderation of the
\* output answers, how many sets the store rejects.  A choice that is never
\* consulted (the completion after a failed input moderation, the output
\* moderation after a failed completion) is fixed.
Environments ==
    {e \in [inputUp : BOOLEAN, fetch : Fetches, outputUp : BOOLEAN, fails : 0 .. MaxSaveFails] :
        /\ ~e.inputUp => (e.fetch.kind = "error" /\ e.fails = 0)
        /\ e.fetch.kind = "error" => e.outputUp}

\* a message is handled this many ticks after it was created
Delays == {0, 2}

Message(space, sender, createTime, text) ==
    [space |-> space, sender |-> [name |-> sender], createTime |-> createTime,
     text |-> text, argumentText |-> text]

\* the ledger stored for a space, the empty ledger when there is none
storedMessages(props, spaceName) ==
    IF hasProperty(props, HISTORY_PREFIX \o spaceName)
       /\ isChatHistory(props[HISTORY_PREFIX \o spaceName])
    THEN props[HISTORY_PREFIX \o spaceName].messages
    ELSE <<>>

NoEvent ==
    [op |-> "none", space |-> <<>>, sender |-> <<>>, text |-> <<>>, inputUp |-> FALSE,
     request |-> NoRequest, completion |-> Undefined, error |-> "none", shown |-> "",
     response |-> Undefined, saved |-> FALSE, rejected |-> 0,
     moderated |-> Undefined, image |-> NoImageRequest,
     pending |-> FALSE, previous |-> NoPrevious,
     card |-> Undefined, logged |-> "none"]

\* whether the ledger stored for a space holds an image command
pendingImage(props, spaceName) ==
    /\ hasProperty(props, HISTORY_PREFIX \o spaceName)
    /\ hasImageCommand(props[HISTORY_PREFIX \o spaceName])

\* the script properties set when the application is deployed
BaseProperties == (PROP_OPENAI_API_KEY :> <<"k">>) @@ (PROP_ADMINS :> U1)

Init ==
    /\ properties = BaseProperties
    /\ now = 0
    /\ lastCreate = -1
    /\ last = NoEvent

\* the number of events handled so far: each takes HandleMillis of the clock
handled == (now % TickMillis) \div HandleMillis

\* time passes
Tick ==
    /\ now \div TickMillis < MaxTicks
    /\ now' = now + TickMillis
    /\ UNCHANGED <<properties, lastCreate, last>>

\* a message that is not a command is handled
ChatOf(text) ==
        /\ \E space \in ChatSpaces, sender \in ChatSenders, delay \in Delays,
              env \in Environments :
            LET createTime == now - delay * TickMillis
                message == Message(space, sender, createTime, text)
                out == onMessageChat(properties, message, now, env.inputUp, env.fetch,
                                     env.outputUp, env.fails, TRUE)
            IN  /\ handled < MaxEvents
                /\ createTime > lastCreate
                /\ Len(storedMessages(properties, space.name)) < MaxMessages
                /\ properties' = out.properties
                /\ last' = [out.last EXCEPT !.pending = pendingImage(properties, space.name)]
                /\ lastCreate' = createTime
                /\ now' = now + HandleMillis

\* a message that is not a command arrives
OnMessageChat ==
    \E text \in Texts :
        /\ checkForCommand(text).kind = "chat"
        /\ ChatOf(text)

\* a "/set" command arrives
OnMessageSet ==
    \E text \in Texts :
        LET command == checkForCommand(text)
        IN  /\ command.kind = "command" /\ command.cmd = CMD_SET
            /\ \E space \in Spaces, sender \in Senders :
                LET createTime == now
                    message == Message(space, sender, createTime, text)
                    out == commandSet(properties, command.arg, message)
                IN  /\ handled < MaxEvents
                    /\ createTime > lastCreate
                    /\ properties' = out.properties
                    /\ last' = Handled("set", message, FALSE, NoRequest, Undefined, out.error,
                                       out.text, NoSave)
                    /\ lastCreate' = createTime
                    /\ now' = now + HandleMillis

\* what the services do while an image command is handled: whether the
\* moderation of the prompt answers, what the image service answers, how many
\* sets the store rejects
ImageEnvironments ==
    {e \in [inputUp : BOOLEAN, imageFetch : ImageFetches, fails : 0 .. MaxSaveFails] :
        ~e.inputUp => (e.imageFetch = "images" /\ e.fails = 0)}

\* what the services do while "/again" is handled: those of an image command
\* when the ledger holds one, those of a completion otherwise
AgainEnvironments(repeatsImage) ==
    IF repeatsImage
    THEN {[inputUp |-> e.inputUp, fetch |-> CHOOSE f \in Fetches : f.kind = "error",
           outputUp |-> TRUE, imageFetch |-> e.imageFetch, fails |-> e.fails] :
             e \in ImageEnvironments}
    ELSE {[inputUp |-> TRUE, fetch |-> e.fetch, outputUp |-> e.outputUp,
           imageFetch |-> "images", fails |-> e.fails] :
             e \in {e \in Environments : e.inputUp}}

\* the record of an event handled by "/image" or "/again"
Repeated(op, message, inputUp, out) ==
    [Handled(op, message, inputUp, out.request, out.completion, out.error, out.text, out.save)
        EXCEPT !.moderated = out.moderated, !.image = out.image]

\* the event handled by a command: the store and the event record after it
Responded(op, message, inputUp, out) ==
    /\ handled < MaxEvents
    /\ message.createTime > lastCreate
    /\ properties' = out.properties
    /\ last' = [Repeated(op, message, inputUp, out)
                    EXCEPT !.pending = pendingImage(properties, message.space.name),
                           !.previous = [op |-> last.op, pending |-> last.pending,
                                         error |-> last.error]]
    /\ lastCreate' = message.createTime
    /\ now' = now + HandleMillis

\* "/again" handled under the services chosen for it
AgainUnder(arg, message, repeatsImage) ==
    \E env \in AgainEnvironments(repeatsImage) :
        Responded("again", message, env.inputUp,
                  commandAgain(properties, arg, message, now, env.inputUp, env.fetch,
                               env.outputUp, env.imageFetch, env.fails, TRUE))

\* "/again" of a message
AgainOf(arg, message) ==
    AgainUnder(arg, message,
               arg = Undefined /\ hasImageCommand(getHistory(properties, message, now, TRUE)))

\* an "/again" command arrives
OnMessageAgain ==
    \E text \in Texts :
        LET command == checkForCommand(text)
        IN  /\ command.kind = "command" /\ command.cmd = CMD_AGAIN
            /\ \E space \in Spaces, sender \in ChatSenders :
                  AgainOf(command.arg, Message(space, sender, now, text))

Next == Tick \/ OnMessageChat \/ OnMessageSet \/ OnMessageAgain

Spec == Init /\ [][Next]_vars

(***************************************************************************)
(* pruneHistory and getHistory applied to the timestamp-ordered ledgers    *)
(***************************************************************************)
\* the ages, in minutes, of the entries of a ledger when it is pruned
Ages == {120, 90, 60, 40, 5}
\* the ages, in minutes, of an incoming message when it is handled
IncomingAges == {90, 50, 0}
\* the time at which the ledgers are pruned
PruneNow == minutesToMillis(120)

EntryOfAge(age) ==
    [time |-> PruneNow - minutesToMillis(age),
     role |-> IF age \in {90, 5} THEN ROLE_ASSISTANT ELSE ROLE_USER,
     text |-> TextHi]

\* the ledger with entries of the given ages, the oldest first
RECURSIVE LedgerOfAges(_)
LedgerOfAges(ages) ==
    IF ages = {} THEN <<>>
    ELSE LET oldest == CHOOSE a \in ages : \A b \in ages : b <= a
         IN  <<EntryOfAge(oldest)>> \o LedgerOfAges(ages \ {oldest})

OrderedLedgers == {LedgerOfAges(ages) : ages \in SUBSET Ages}

RoomHistory(messages) == [space |-> SpaceRoom.name, messages |-> messages]
RoomKey == HISTORY_PREFIX \o SpaceRoom.name
NoCall == [op |-> "none", input |-> <<>>, createTime |-> -1, skip |-> FALSE]

InitPrune ==
    /\ properties \in {BaseProperties}
                      \cup {setProperty(BaseProperties, RoomKey, RoomHistory(m)) : m \in OrderedLedgers}
    /\ now = PruneNow
    /\ lastCreate = -1
    /\ last = NoCall

\* pruneHistory(history) on the stored ledger
ApplyPruneHistory ==
    /\ last.op = "none"
    /\ hasProperty(properties, RoomKey)
    /\ LET messages == properties[RoomKey].messages
       IN  /\ properties' = setProperty(properties, RoomKey, RoomHistory(pruneHistory(messages, now)))
           /\ last' = [op |-> "pruneHistory", input |-> messages, createTime |-> -1, skip |-> FALSE]
    /\ UNCHANGED <<now, lastCreate>>

\* getHistory(message, skip); the ledger it returns is put in the place of the stored one
ApplyGetHistory ==
    /\ last.op = "none"
    /\ \E age \in IncomingAges, skip \in BOOLEAN :
        LET message == Message(SpaceRoom, U2, now - minutesToMillis(age), TextOk)
        IN  /\ properties' = setProperty(properties, RoomKey, getHistory(properties, message, now, skip))
            /\ last' = [op |-> "getHistory", input |-> storedMessages(properties, SpaceRoom.name),
                        createTime |-> message.createTime, skip |-> skip]
            /\ lastCreate' = message.createTime
    /\ UNCHANGED now

NextPrune == ApplyPruneHistory \/ ApplyGetHistory

SpecPrune == InitPrune /\ [][NextPrune]_vars

(***************************************************************************)
(* saveHistory applied to ledgers and to the answers of the store          *)
(***************************************************************************)
\* the answers of the store to the successive sets
SetAnswers(n) == [1 .. n -> BOOLEAN]

InitSave ==
    /\ properties \in {BaseProperties,
                       setProperty(BaseProperties, RoomKey, RoomHistory(LedgerOfAges({40})))}
    /\ now = PruneNow
    /\ lastCreate = -1
    /\ last = [op |-> "none", input |-> <<>>, setOk |-> <<>>, deleteOk |-> FALSE,
               saved |-> FALSE, thrown |-> FALSE, rejected |-> 0]

\* saveHistory(history)
ApplySaveHistory ==
    /\ last.op = "none"
    /\ \E messages \in OrderedLedgers, deleteOk \in BOOLEAN :
        \E setOk \in SetAnswers(Len(messages)) :
            LET save == saveHistory(properties, RoomHistory(messages), setOk, deleteOk, now)
            IN  /\ properties' = save.properties
                /\ last' = [op |-> "saveHistory", input |-> messages, setOk |-> setOk,
                            deleteOk |-> deleteOk, saved |-> save.saved, thrown |-> save.thrown,
                            rejected |-> save.rejected]
    /\ UNCHANGED <<now, lastCreate>>

NextSave == ApplySaveHistory

SpecSave == InitSave /\ [][NextSave]_vars

(***************************************************************************)
(* Properties of the handling of messages                                  *)
(***************************************************************************)
\* the last event was a chat message or an "/again" whose completion text
\* was flagged by the moderation of the output
outputFlagged ==
    /\ last.op \in {"chat", "again"}
    /\ last.completion # Undefined
    /\ last.error = "ModerationFlaggedError"

\* C1: a completion text flagged by the moderation is not used further: it is
\* not returned to the user and the ledger persisted for the space at the end
\* of the request holds no assistant entry with that text
C1_FlaggedCompletionUnused ==
    outputFlagged =>
        /\ last.response # last.completion
        /\ \A i \in DOMAIN storedMessages(properties, last.space) :
            LET entry == storedMessages(properties, last.space)[i]
            IN  ~(entry.role = ROLE_ASSISTANT /\ entry.text = last.completion)

\* the step handles a message created at lastCreate'
handles(op) == lastCreate' # lastCreate /\ last'.op = op

\* C2: a chat message whose text the moderation flags is not stored: the
\* properties are as they were, no completion request was made and the user
\* is shown the flagged-content error
C2_FlaggedInputNotStored ==
    [][(/\ handles("chat")
        /\ last'.text \in FlaggedTexts
        /\ last'.inputUp
        /\ hasOpenAIAPIKey(properties))
       => (/\ properties' = properties
           /\ last'.request = NoRequest
           /\ last'.error = "ModerationFlaggedError"
           /\ last'.shown = "Content was flagged by moderation")]_vars

\* a flagged chat message was handled while a ledger was stored for the space
C2_Witness ==
    /\ last.op = "chat"
    /\ last.text \in FlaggedTexts
    /\ last.error = "ModerationFlaggedError"
    /\ Len(storedMessages(properties, last.space)) > 0

\* the last event was a chat message whose completion request failed
completionFailed == last.op = "chat" /\ last.error = "ChatCompletionError"

\* the last user entry of the messages, 0 when there is none
newestUser(messages) ==
    LET users == {i \in DOMAIN messages : messages[i].role = ROLE_USER}
    IN  IF users = {} THEN 0 ELSE CHOOSE i \in users : \A j \in users : j <= i

\* the message handled last is the newest user entry of the stored ledger
inputStored ==
    LET messages == storedMessages(properties, last.space)
    IN  /\ newestUser(messages) > 0
        /\ messages[newestUser(messages)] = [time |-> lastCreate, role |-> ROLE_USER, text |-> last.text]

ordered(messages) ==
    \A i, j \in DOMAIN messages :
        i < j => (messages[i].time <= messages[j].time /\ messages[i] # messages[j])

\* the chat messages that can arrive next
nextMessages ==
    {Message(space, sender, now - delay * TickMillis, text) :
        space \in ChatSpaces, sender \in ChatSenders,
        delay \in {d \in Delays : now - d * TickMillis > lastCreate}, text \in ChatTexts}

\* C8: the entries of every persisted ledger, and of the ledger getHistory
\* returns for a message that arrives next, are in non-decreasing order of
\* time without a duplicate, the assistant entries included
C8_LedgersOrdered ==
    /\ \A space \in Spaces : ordered(storedMessages(properties, space.name))
    /\ \A message \in nextMessages, skip \in BOOLEAN :
        ordered(getHistory(properties, message, now, skip).messages)

\* the message handled last was created before the assistant entry that was
\* stored already, and is stored in front of it
C8_Witness ==
    LET messages == storedMessages(properties, last.space)
    IN  /\ last.op = "chat"
        /\ \E i \in DOMAIN messages :
            /\ messages[i] = [time |-> lastCreate, role |-> ROLE_USER, text |-> last.text]
            /\ i + 2 <= Len(messages)
            /\ messages[i + 1].role = ROLE_ASSISTANT
            /\ messages[i + 2].role = ROLE_ASSISTANT

(***************************************************************************)
(* Properties of "/set"                                                    *)
(***************************************************************************)
\* the keys "/set" has to leave alone
protectedKey(key) ==
    key = PROP_OPENAI_API_KEY \/ key = PROP_ADMINS \/ (Len(key) > 0 /\ key[1] = "_")

\* C9: a "/set" command, from any sender in any space, neither creates nor
\* changes nor deletes OPENAI_API_KEY, ADMINS or a key that begins with "_"
C9_ProtectedKeysKept ==
    [][handles("set") =>
        \A key \in DOMAIN properties \cup DOMAIN properties' :
            protectedKey(key) =>
                /\ key \in DOMAIN properties
                /\ key \in DOMAIN properties'
                /\ properties'[key] = properties[key]]_vars

\* an admin, in a one-to-one chat where "/set" works, asked for a protected key
C9_Witness ==
    /\ last.op = "set"
    /\ last.space = SpaceDm.name /\ last.sender = U1
    /\ last.text \in {CmdSetKey, CmdSetAdmins, CmdClearAdmins, CmdSetHidden}
    /\ last.error = "UnauthorizedError"
    /\ \E key \in DOMAIN properties : ~protectedKey(key)

C3_ThrowsWhenNothingSaved ==
    (/\ last.op = "saveHistory"
     /\ Len(last.input) > 0
     /\ \A i \in DOMAIN last.setOk : ~last.setOk[i])
    => last.thrown

\* the sets of the save loop that the store rejected before it accepted one
failuresBefore(setOk) ==
    Cardinality({i \in DOMAIN setOk : \A j \in 1 .. i : ~setOk[j]})

\* the attempts of the save loop
saveAttempts == last.rejected + (IF last.saved THEN 1 ELSE 0)

\* C36: the save loop ends after at most n sets for a ledger of n entries; it
\* has dropped one entry, the oldest, for each rejected set; a set accepted
\* after k rejected ones stores the n - k newest entries in their order
C36_SaveLoopTerminates ==
    last.op = "saveHistory" =>
        LET n == Len(last.input)
            k == last.rejected
        IN  /\ saveAttempts <= n
            /\ k = failuresBefore(last.setOk)
            /\ last.saved =>
                   /\ k < n
                   /\ storedMessages(properties, SpaceRoom.name) = SubSeq(last.input, k + 1, n)
            /\ ~last.saved => k = n

\* a ledger of several entries was stored after the store rejected a set
C36_Witness ==
    /\ last.op = "saveHistory"
    /\ Len(last.input) >= 3
    /\ last.saved /\ last.rejected >= 1
    /\ Len(storedMessages(properties, SpaceRoom.name)) = Len(last.input) - last.rejected
    /\ Len(storedMessages(properties, SpaceRoom.name)) >= 2

\* the store rejected every set
C36_WitnessNoneSaved ==
    /\ last.op = "saveHistory"
    /\ Len(last.input) >= 2
    /\ ~last.saved /\ last.rejected = Len(last.input)

(***************************************************************************)
(* Properties of pruneHistory and getHistory                               *)
(***************************************************************************)
age(entry) == differenceMillis(PruneNow, entry.time)
withinWindow(entry) == age(entry) <= minutesToMillis(HISTORY_MINUTES)

\* the first entry of the messages within the window, Len + 1 when there is none
firstWithin(messages) ==
    LET within == {i \in DOMAIN messages : withinWindow(messages[i])}
    IN  IF within = {} THEN Len(messages) + 1
        ELSE CHOOSE i \in within : \A j \in within : i <= j

\* C5: pruning a ledger ordered by time leaves the entries from the first one
\* within the window on: the entries in front of it, all older than the
\* window, are removed and no other
C5_MaximalPrefixPruned ==
    last.op = "pruneHistory" =>
        storedMessages(properties, SpaceRoom.name)
            = SubSeq(last.input, firstWithin(last.input), Len(last.input))

\* ages 120, 90, 40 and 5 minutes were pruned to 40 and 5
C5_Witness ==
    /\ last.op = "pruneHistory"
    /\ last.input = LedgerOfAges({120, 90, 40, 5})
    /\ storedMessages(properties, SpaceRoom.name) = LedgerOfAges({40, 5})

\* C6: an entry whose age is the window is kept by pruning, and an entry is
\* removed only if its age is greater than the window
C6_EvictedOnlyWhenOlder ==
    last.op = "pruneHistory" =>
        \A i \in DOMAIN last.input :
            LET entry == last.input[i]
                kept == entry \in Range(storedMessages(properties, SpaceRoom.name))
            IN  /\ age(entry) = minutesToMillis(HISTORY_MINUTES) => kept
                /\ ~kept => age(entry) > minutesToMillis(HISTORY_MINUTES)

\* a ledger with an entry as old as the window behind an older one was pruned
C6_Witness ==
    /\ last.op = "pruneHistory"
    /\ last.input = LedgerOfAges({120, 60, 5})
    /\ storedMessages(properties, SpaceRoom.name) = LedgerOfAges({60, 5})

CMD_INIT == <<"i","n","i","t">>
CMD_SHOW == <<"s","h","o","w">>
PROP_INTRODUCTION == <<"I","N","T","R","O","D","U","C","T","I","O","N">>
PROP_INTRODUCTION_PROMPT == <<"I","N","T","R","O","D","U","C","T","I","O","N","_","P","R","O","M","P","T">>
PROP_HELP_TEXT == <<"H","E","L","P","_","T","E","X","T">>
PROP_IMAGE_PROMPT_TRANSLATION == <<"I","M","A","G","E","_","P","R","O","M","P","T","_","T","R","A","N","S","L","A","T","I","O","N">>
JSON_STRING_PROPS ==
    {PROP_INTRODUCTION, PROP_INTRODUCTION_PROMPT, PROP_HELP_TEXT, PROP_IMAGE_PROMPT_TRANSLATION}

\* the characters of the texts in the order of their code units
CharOrder ==
    <<"\n"," ","*",",","/","0","1","2","3","4","5","6","7","8","9",":">>
    \o <<"A","B","C","D","E","F","G","H","I","J","K","L","M","N","O","P","Q","R","S","T","U","V","W","X","Y","Z">>
    \o <<"\\","_">>
    \o <<"a","b","c","d","e","f","g","h","i","j","k","l","m","n","o","p","q","r","s","t","u","v","w","x","y","z">>

charCode(c) == CHOOSE i \in DOMAIN CharOrder : CharOrder[i] = c

\* s < t in the order Array.prototype.sort uses for strings
RECURSIVE lessThan(_, _)
lessThan(s, t) ==
    IF t = <<>> THEN FALSE
    ELSE IF s = <<>> THEN TRUE
    ELSE IF s[1] # t[1] THEN charCode(s[1]) < charCode(t[1])
    ELSE lessThan(Tail(s), Tail(t))

RECURSIVE insertSorted(_, _)
insertSorted(sorted, s) ==
    IF sorted = <<>> THEN <<s>>
    ELSE IF lessThan(s, sorted[1]) THEN <<s>> \o sorted
    ELSE <<sorted[1]>> \o insertSorted(Tail(sorted), s)

\* Array.prototype.sort() of an array of strings
RECURSIVE sort(_)
sort(strings) ==
    IF strings = <<>> THEN <<>>
    ELSE insertSorted(sort(SubSeq(strings, 1, Len(strings) - 1)), strings[Len(strings)])

\* the elements of a set of strings as a sorted array
RECURSIVE sortedKeys(_)
sortedKeys(keys) ==
    IF keys = {} THEN <<>>
    ELSE LET first == CHOOSE k \in keys : \A other \in keys : ~lessThan(other, k)
         IN  <<first>> \o sortedKeys(keys \ {first})

\* lines joined by line feeds
RECURSIVE joinLines(_)
joinLines(lines) ==
    IF lines = <<>> THEN <<>>
    ELSE IF Len(lines) = 1 THEN lines[1]
    ELSE lines[1] \o <<"\n">> \o joinLines(Tail(lines))

\* the replacements of quoteShownValue, character by character; the texts of
\* the model hold no backquote
RECURSIVE escapeShown(_)
escapeShown(value) ==
    IF value = <<>> THEN <<>>
    ELSE (CASE value[1] = "\n" -> <<"\\", "n">>
            [] value[1] = "*" -> <<"\\","u","0","0","2","a">>
            [] value[1] = "_" -> <<"\\","u","0","0","5","f">>
            [] OTHER -> <<value[1]>>) \o escapeShown(Tail(value))

quoteShownValue(property, value) ==
    IF property \in JSON_STRING_PROPS THEN escapeShown(value) ELSE value

\* the separator handed to split in commandShow: a string, not a regular expression
SHOW_SEPARATOR == <<"\\","s","+">>

\* the response of commandInit, without the JSON rendering around the content
initResponse(content) ==
    IF content # Undefined
    THEN <<"C","h","a","t"," ","c","o","m","p","l","e","t","i","o","n"," ","i","n","i","t","i","a","l","i","z","a","t","i","o","n"," ","s","e","q","u","e","n","c","e",":","\n">> \o content
    ELSE <<"C","h","a","t"," ","c","o","m","p","l","e","t","i","o","n"," ","i","n","i","t","i","a","l","i","z","a","t","i","o","n"," ","s","e","q","u","e","n","c","e"," ","c","l","e","a","r","e","d">>

\* commandInit that does not call checkAdmin
commandInitUnchecked(props, arg, message) ==
    LET initStr == IF arg # Undefined THEN trim(arg) ELSE Undefined
    IN  IF initStr # Undefined /\ initStr # <<>>
        THEN [properties |-> setProperty(props, PROP_CHAT_COMPLETION_INIT,
                                         <<[role |-> ROLE_USER, content |-> initStr]>>),
              error |-> NoError, text |-> initResponse(initStr)]
        ELSE [properties |-> deleteProperty(props, PROP_CHAT_COMPLETION_INIT),
              error |-> NoError, text |-> initResponse(Undefined)]

\* commandInit(arg, message)
commandInit(props, arg, message) ==
    LET admin == checkAdmin(props, message)
        initStr == IF arg # Undefined THEN trim(arg) ELSE Undefined
    IN  IF admin # NoError
        THEN [properties |-> props, error |-> admin, text |-> Undefined]
        ELSE IF initStr # Undefined /\ initStr # <<>>
        THEN [properties |-> setProperty(props, PROP_CHAT_COMPLETION_INIT,
                                         <<[role |-> ROLE_USER, content |-> initStr]>>),
              error |-> NoError, text |-> initResponse(initStr)]
        ELSE [properties |-> deleteProperty(props, PROP_CHAT_COMPLETION_INIT),
              error |-> NoError, text |-> initResponse(Undefined)]

\* JSON.stringify of a string
RECURSIVE stringifyChars(_)
stringifyChars(str) ==
    IF str = <<>> THEN <<>>
    ELSE (CASE str[1] = "\"" -> <<"\\", "\"">>
            [] str[1] = "\\" -> <<"\\", "\\">>
            [] str[1] = "\n" -> <<"\\", "n">>
            [] OTHER -> <<str[1]>>) \o stringifyChars(Tail(str))

\* JSON.stringify of an initialization sequence, whose entries have the role
\* of the user
RECURSIVE stringifyMessages(_)
stringifyMessages(messages) ==
    IF messages = <<>> THEN <<>>
    ELSE <<"{","\"","r","o","l","e","\"",":","\"">> \o <<"u","s","e","r">>
         \o <<"\"",",","\"","c","o","n","t","e","n","t","\"",":","\"">> \o stringifyChars(messages[1].content) \o <<"\"","}">>
         \o (IF Len(messages) > 1 THEN <<",">> ELSE <<>>) \o stringifyMessages(Tail(messages))

\* the string the store holds for a key: the JSON text of the initialization
\* sequence, which the model keeps parsed
storedString(props, key) ==
    IF key = PROP_CHAT_COMPLETION_INIT
    THEN <<"[">> \o stringifyMessages(props[key]) \o <<"]">>
    ELSE props[key]

\* the lines of the response of commandShow, between its code fences
showLines(props, arg) ==
    LET args == IF arg # Undefined THEN split(trim(arg), SHOW_SEPARATOR) ELSE <<>>
        shown == sortedKeys({k \in DOMAIN props :
                                /\ k # PROP_OPENAI_API_KEY
                                /\ ~startsWith(k, <<"_">>)
                                /\ (Len(args) = 0 \/ k \in Range(args))})
        others == SelectSeq(sort(args), LAMBDA key : key \notin Range(shown))
    IN  [i \in DOMAIN shown |-> shown[i] \o <<":", " ">> \o quoteShownValue(shown[i], storedString(props, shown[i]))]
        \o [i \in DOMAIN others |->
                others[i] \o (IF hasProperty(props, others[i])
                              THEN <<" ","i","s"," ","h","i","d","d","e","n">> ELSE <<" ","i","s"," ","u","n","d","e","f","i","n","e","d">>)]

\* commandShow(arg, message)
commandShow(props, arg, message) ==
    LET admin == checkAdmin(props, message)
    IN  IF admin # NoError
        THEN [properties |-> props, error |-> admin, text |-> Undefined]
        ELSE [properties |-> props, error |-> NoError, text |-> joinLines(showLines(props, arg))]

(***************************************************************************)
(* The admin commands on a deployed store                                  *)
(***************************************************************************)
CmdInit == <<"/","i","n","i","t"," ","b","e"," ","n","i","c","e">>
CmdInitClear == <<"/","i","n","i","t">>
CmdShow == <<"/","s","h","o","w">>
CmdShowKey == <<"/","s","h","o","w"," ","O","P","E","N","A","I","_","A","P","I","_","K","E","Y">>
CmdShowFoo == <<"/","s","h","o","w"," ","F","O","O">>
CmdShowLedger == <<"/","s","h","o","w"," ","_","h","i","s","t","o","r","y","/","R">>
CmdShowFooKey == <<"/","s","h","o","w"," ","F","O","O"," ","O","P","E","N","A","I","_","A","P","I","_","K","E","Y">>
AdminTexts == {CmdInit, CmdInitClear, CmdShow, CmdShowKey, CmdShowFoo, CmdShowLedger, CmdShowFooKey}

SecretKey == <<"s","k","1">>

\* the stores of a deployment: the key and the admin list, with or without
\* the ledger of the room
AdminStores ==
    LET base == (PROP_OPENAI_API_KEY :> SecretKey) @@ (PROP_ADMINS :> U1)
    IN  {base,
         (HISTORY_PREFIX \o SpaceRoom.name :>
            [space |-> SpaceRoom.name,
             messages |-> <<[time |-> 0, role |-> ROLE_USER, text |-> TextHi]>>]) @@ base}

InitAdmin ==
    /\ properties \in AdminStores
    /\ now = 0
    /\ lastCreate = -1
    /\ last = NoEvent

\* an "/init" command arrives
OnMessageInit ==
    \E text \in AdminTexts :
        LET command == checkForCommand(text)
        IN  /\ command.kind = "command" /\ command.cmd = CMD_INIT
            /\ \E space \in Spaces, sender \in Senders :
                LET createTime == now
                    message == Message(space, sender, createTime, text)
                    out == commandInit(properties, command.arg, message)
                IN  /\ handled < MaxEvents
                    /\ createTime > lastCreate
                    /\ properties' = out.properties
                    /\ last' = Handled("init", message, FALSE, NoRequest, Undefined, out.error,
                                       out.text, NoSave)
                    /\ lastCreate' = createTime
                    /\ now' = now + HandleMillis

\* a "/show" command arrives
OnMessageShow ==
    \E text \in AdminTexts :
        LET command == checkForCommand(text)
        IN  /\ command.kind = "command" /\ command.cmd = CMD_SHOW
            /\ \E space \in Spaces, sender \in Senders :
                LET createTime == now
                    message == Message(space, sender, createTime, text)
                    out == commandShow(properties, command.arg, message)
                IN  /\ handled < MaxEvents
                    /\ createTime > lastCreate
                    /\ properties' = out.properties
                    /\ last' = Handled("show", message, FALSE, NoRequest, Undefined, out.error,
                                       out.text, NoSave)
                    /\ lastCreate' = createTime
                    /\ now' = now + HandleMillis

NextAdmin == OnMessageSet \/ OnMessageInit \/ OnMessageShow

SpecAdmin == InitAdmin /\ [][NextAdmin]_vars

(***************************************************************************)
(* Properties of the admin commands                                        *)
(***************************************************************************)
AdminOps == {"init", "show", "set"}

\* an admin command is handled in this step
handlesAdmin == lastCreate' # lastCreate /\ last'.op \in AdminOps

\* the sender of the handled command is in the admin list of the store
senderIsAdmin == last'.sender \in Range(getAdmins(properties))

C12_OnlyAdminChangesSettings ==
    [][(handlesAdmin /\ (last'.space # SpaceDm.name \/ ~senderIsAdmin)) =>
          properties' = properties]_vars

\* the initialization sequence an admin had set is still stored after a
\* sender who is not an admin asked to clear it
C12_Witness ==
    /\ last.op = "init" /\ last.text = CmdInitClear
    /\ last.sender = U2
    /\ hasProperty(properties, PROP_CHAT_COMPLETION_INIT)

(***************************************************************************)
(* isAdmin on the admin lists of a deployment                              *)
(***************************************************************************)
MaxAdmins == 3
U3 == <<"u","3">>
AdminIds == {U1, U2, U3}

\* what may stand between two identifiers of the ADMINS property
AdminSeparators == {<<",">>, <<" ">>, <<","," ">>, <<"\n">>}

RECURSIVE joinWith(_, _)
joinWith(items, sep) ==
    IF Len(items) = 1 THEN items[1]
    ELSE items[1] \o sep \o joinWith(Tail(items), sep)

\* the values of the ADMINS property: identifiers without repetition, joined
\* by one of the separators
AdminLists ==
    {joinWith(ids, sep) :
        ids \in {s \in UNION {[1 .. n -> AdminIds] : n \in 1 .. MaxAdmins} :
                    \A i, j \in DOMAIN s : i # j => s[i] # s[j]},
        sep \in AdminSeparators}

NoAdminCall == [op |-> "none", sender |-> <<>>, admins |-> <<>>, result |-> FALSE]

InitAdmins ==
    /\ properties \in {(PROP_OPENAI_API_KEY :> SecretKey)}
                      \cup {(PROP_OPENAI_API_KEY :> SecretKey) @@ (PROP_ADMINS :> list) :
                                list \in AdminLists \cup {<<>>, <<" ">>, <<" ","u","1"," ">>}}
    /\ now = 0
    /\ lastCreate = -1
    /\ last = NoAdminCall

\* isAdmin(message) for a message of some sender
ApplyIsAdmin ==
    /\ last.op = "none"
    /\ \E sender \in AdminIds :
        LET message == Message(SpaceDm, sender, now, CmdShow)
        IN  last' = [op |-> "isAdmin", sender |-> sender, admins |-> getAdmins(properties),
                     result |-> isAdmin(properties, message)]
    /\ UNCHANGED <<properties, now, lastCreate>>

NextAdmins == ApplyIsAdmin

SpecAdmins == InitAdmins /\ [][NextAdmins]_vars

\* the identifiers of an admin list: what stands between its commas and
\* white space
RECURSIVE listedItems(_)
listedItems(str) ==
    LET isSeparator(c) == c = "," \/ IsSpace(c)
        starts == {i \in DOMAIN str : ~isSeparator(str[i])}
    IN  IF starts = {} THEN {}
        ELSE LET first == CHOOSE i \in starts : \A j \in starts : i <= j
                 stops == {i \in first .. Len(str) : isSeparator(str[i])}
                 stop == IF stops = {} THEN Len(str) + 1
                         ELSE CHOOSE i \in stops : \A j \in stops : i <= j
             IN  {SubSeq(str, first, stop - 1)} \cup listedItems(Drop(str, stop - 1))

\* C13: isAdmin holds of a sender exactly when the identifier of the sender
\* is one of the items of the ADMINS property, the items being separated by
\* commas or white space
C13_ListedExactlyAdmins ==
    (last.op = "isAdmin" /\ hasProperty(properties, PROP_ADMINS)) =>
        (last.result <=> last.sender \in listedItems(properties[PROP_ADMINS]))

(***************************************************************************)
(* Properties of "/show"                                                   *)
(***************************************************************************)
\* the keys whose values are secret or internal
isSecretKey(key) == key = PROP_OPENAI_API_KEY \/ startsWith(key, <<"_">>)

\* the words of a text: what stands between its white space
RECURSIVE wordsOf(_)
wordsOf(str) ==
    LET starts == {i \in DOMAIN str : ~IsSpace(str[i])}
    IN  IF starts = {} THEN {}
        ELSE LET first == CHOOSE i \in starts : \A j \in starts : i <= j
                 stops == {i \in first .. Len(str) : IsSpace(str[i])}
                 stop == IF stops = {} THEN Len(str) + 1
                         ELSE CHOOSE i \in stops : \A j \in stops : i <= j
             IN  {SubSeq(str, first, stop - 1)} \cup wordsOf(Drop(str, stop - 1))

\* the property names a "/show" message asks for
requestedNames(text) ==
    LET arg == checkForCommand(text).arg
    IN  IF arg = Undefined THEN {} ELSE wordsOf(arg)

\* "/show" was answered with a listing
shows == last.op = "show" /\ last.error = "none"

\* the lines of the listing
shownLines == Range(split(last.response, <<"\n">>))

\* no line of the listing gives the value of a secret or internal key, and
\* the value of the API key occurs nowhere in the listing
revealsNoSecret ==
    /\ \A key \in {k \in DOMAIN properties : isSecretKey(k)} :
          \A line \in shownLines : ~startsWith(line, key \o <<":">>)
    /\ indexOf(last.response, properties[PROP_OPENAI_API_KEY]) = 0

\* C14: the listing of "/show" gives no value of OPENAI_API_KEY or of a key
\* that starts with "_", and it reports every requested name that is such a
\* key of the store as hidden
C14_SecretsHiddenNotShown ==
    shows =>
        /\ revealsNoSecret
        /\ \A key \in requestedNames(last.text) :
              (hasProperty(properties, key) /\ isSecretKey(key)) =>
                  key \o <<" ","i","s"," ","h","i","d","d","e","n">> \in shownLines

(***************************************************************************)
(* Chat messages, "/image" and "/again"                                    *)
(***************************************************************************)
CMD_IMAGE == <<"i","m","a","g","e">>
CmdImage == <<"/","i","m","a","g","e"," ","c","a","t">>
CmdImageSized == <<"/","i","m","a","g","e"," ","n","=","2"," ","3","0","0","x","2","0","0"," ","c","a","t">>
CmdImageCount == <<"/","i","m","a","g","e"," ","n","=","3">>
CmdImageBad == <<"/","i","m","a","g","e"," ","b","a","d">>
ImageTexts == {CmdImage, CmdImageSized, CmdImageCount, CmdImageBad}

\* an "/image" command arrives
OnMessageImage ==
    \E text \in ImageTexts :
        LET command == checkForCommand(text)
        IN  /\ command.kind = "command" /\ command.cmd = CMD_IMAGE
            /\ \E space \in ChatSpaces, sender \in ChatSenders, env \in ImageEnvironments :
                  Responded("image", Message(space, sender, now, text), env.inputUp,
                            [request |-> NoRequest, completion |-> Undefined] @@
                            commandImage(properties, command.arg,
                                         Message(space, sender, now, text), now, env.inputUp,
                                         env.imageFetch, env.fails, TRUE))

\* the stores a room can have before the clock starts: that of the
\* deployment, and the one left by a chat message that was completed
ChattedStores ==
    {BaseProperties,
     onMessageChat(BaseProperties, Message(SpaceRoom, U2, 0, TextHi), 0, TRUE,
                   CHOOSE f \in Fetches : f.kind # "error" /\ f.content \notin FlaggedTexts,
                   TRUE, 0, TRUE).properties}

\* the image commands handled before the clock starts
FirstImages ==
    {commandImage(store, checkForCommand(text).arg, Message(SpaceRoom, U2, 0, text), 0, TRUE,
                  imageFetch, 0, TRUE) @@
     [request |-> NoRequest, completion |-> Undefined, message |-> Message(SpaceRoom, U2, 0, text)] :
        store \in ChattedStores, text \in {CmdImage, CmdImageSized}, imageFetch \in ImageFetches}

\* one tick after the room was first used: by a chat message or not at all, and then
\* by an image command or not
InitImage ==
    /\ now = TickMillis
    /\ lastCreate = 0
    /\ \/ properties \in ChattedStores /\ last = NoEvent
       \/ \E out \in FirstImages :
             /\ properties = out.properties
             /\ last = Repeated("image", out.message, TRUE, out)

NextImage == Tick \/ OnMessageChat \/ OnMessageImage \/ OnMessageAgain

SpecImage == InitImage /\ [][NextImage]_vars

(***************************************************************************)
(* Properties of "/image" and "/again"                                     *)
(***************************************************************************)
\* the last event was an image command that asked the image service
imageRequested == last.op = "image" /\ last.image # NoImageRequest

\* "/again" without arguments is handled in this step, in the space of the
\* last event
againHandled ==
    /\ lastCreate' # lastCreate
    /\ last'.op = "again" /\ last'.text = CmdAgain /\ last'.space = last.space

\* "/again" is handled in this step with no tick of the clock since the last event
againAtOnce == againHandled /\ now = lastCreate + HandleMillis

\* the chat entries stored for the space of the last event
entries == storedMessages(properties, last.space)
entriesAfter == storedMessages(properties', last.space)

\* the services that "/again" calls answered, and the store accepted the
\* ledgers that the last event and "/again" wrote
servicesAnswer == last.saved /\ last'.inputUp /\ last'.rejected = 0

chatAfterImage ==
    /\ last.op = "chat" /\ last.pending
    /\ last.error = "none" /\ last.saved /\ last.rejected = 0

AgainNow == 4 * TickMillis

\* the minutes between two entries of a ledger
EntryGapMinutes == 15

\* a ledger with the given roles, its entries EntryGapMinutes apart and the
\* newest 5 minutes old; the oldest is expired already when asked so
RoleLedger(roles, expired) ==
    [i \in DOMAIN roles |->
        [time |-> IF expired /\ i = 1
                  THEN AgainNow - minutesToMillis(HISTORY_MINUTES + 5)
                  ELSE AgainNow - minutesToMillis(5 + EntryGapMinutes * (Len(roles) - i)),
         role |-> roles[i],
         text |-> IF roles[i] = ROLE_USER THEN TextHi ELSE TextOk]]

RoleLedgers ==
    {RoleLedger(roles, expired) :
        roles \in UNION {[1 .. n -> {ROLE_USER, ROLE_ASSISTANT}] : n \in 0 .. MaxMessages},
        expired \in BOOLEAN}

InitAgain ==
    /\ properties \in {setProperty(BaseProperties, RoomKey, RoomHistory(messages)) :
                          messages \in RoleLedgers}
    /\ now = AgainNow
    /\ lastCreate = -1
    /\ last = NoEvent

NextAgain == OnMessageAgain

SpecAgain == InitAgain /\ [][NextAgain]_vars

(***************************************************************************)
(* Claims about "/again" on the chat entries                               *)
(***************************************************************************)
\* the index of the last user entry, 0 when there is none
lastUser(messages) ==
    IF \E i \in DOMAIN messages : messages[i].role = ROLE_USER
    THEN CHOOSE i \in DOMAIN messages :
            /\ messages[i].role = ROLE_USER
            /\ \A j \in DOMAIN messages : j > i => messages[j].role = ROLE_ASSISTANT
    ELSE 0

\* the entries up to the last user entry
upToLastUser(messages) == SubSeq(messages, 1, lastUser(messages))

\* "/again" is handled for a space whose ledger holds no image command
chatAgain ==
    /\ lastCreate' # lastCreate
    /\ last'.op = "again" /\ last'.text = CmdAgain
    /\ ~pendingImage(properties, last'.space)

\* the ledger that "/again" reads, and what it keeps of it
ledgerRead == pruneHistory(storedMessages(properties, last'.space), now)
remaining == upToLastUser(ledgerRead)

chatFailed ==
    /\ last.op = "chat" /\ last.error = "ChatCompletionError"
    /\ last.saved /\ last.rejected = 0

\* the last event was an image command whose generation failed upstream and
\* whose ledger was stored
imageFailed ==
    /\ last.op \in {"image", "again"} /\ last.error = "ImageGenerationError"
    /\ last.image # NoImageRequest
    /\ last.saved /\ last.rejected = 0

\* nothing of the ledger has left the retention window
nothingExpired == pruneHistory(entries, now) = entries

\* the image command of the ledger is within the retention window
imageRemembered ==
    /\ pendingImage(properties, last.space)
    /\ differenceMillis(now, properties[HISTORY_PREFIX \o last.space].imageCommand.time)
          <= getHistoryMillis

C18_WitnessImage ==
    /\ last.op = "again" /\ last.error = "none"
    /\ last.previous.op = "image" /\ last.previous.error = "ImageGenerationError"
    /\ last.image # NoImageRequest

\* the age of the image command stored for the space of the event handled in this step
imageCommandAge ==
    differenceMillis(now, properties[HISTORY_PREFIX \o last'.space].imageCommand.time)

\* "/again" is handled for a space whose ledger holds an image command
imageAgain ==
    /\ lastCreate' # lastCreate
    /\ last'.op = "again" /\ last'.text = CmdAgain
    /\ pendingImage(properties, last'.space)

MaxWords == 3

ImageWords ==
    {<<"n","=","3">>, <<"N","=","1","2">>, <<"5","1","2","x","5","1","2">>, <<"3","0","0","X","2","0","0">>, <<"c","a","t">>, <<"n","=","x">>}

\* what separates the words of an argument
ImageSeparators == {<<" ">>, <<" ","\n">>}

ImageArgs ==
    {joinWith(words, sep) :
        words \in UNION {[1 .. n -> ImageWords] : n \in 1 .. MaxWords},
        sep \in ImageSeparators}

InitImageArgs ==
    /\ properties = BaseProperties
    /\ now = 0
    /\ lastCreate = -1
    /\ last \in {[NoEvent EXCEPT !.text = <<"/","i","m","a","g","e"," ">> \o arg] : arg \in ImageArgs}

\* "/image" with the argument arrives in the room
ApplyCommandImage ==
    /\ last.op = "none"
    /\ \E env \in ImageEnvironments :
          Responded("image", Message(SpaceRoom, U2, now, last.text), env.inputUp,
                    [request |-> NoRequest, completion |-> Undefined] @@
                    commandImage(properties, checkForCommand(last.text).arg,
                                 Message(SpaceRoom, U2, now, last.text), now, env.inputUp,
                                 env.imageFetch, env.fails, TRUE))

NextImageArgs == ApplyCommandImage

SpecImageArgs == InitImageArgs /\ [][NextImageArgs]_vars

(***************************************************************************)
(* Claims about the arguments of "/image"                                  *)
(***************************************************************************)
\* the words of a text with their positions: what stands between its white space
wordSpans(str) ==
    {[at |-> i, len |-> l] : i \in DOMAIN str, l \in 1 .. Len(str)} \cap
    {span \in [at : DOMAIN str, len : 1 .. Len(str)] :
        /\ span.at + span.len - 1 <= Len(str)
        /\ \A k \in span.at .. (span.at + span.len - 1) : ~IsSpace(str[k])
        /\ (span.at = 1 \/ IsSpace(str[span.at - 1]))
        /\ (span.at + span.len - 1 = Len(str) \/ IsSpace(str[span.at + span.len]))}

wordAt(str, span) == SubSeq(str, span.at, span.at + span.len - 1)

\* n=<count>
isCountWord(w) ==
    /\ Len(w) >= 3 /\ w[1] \in {"n", "N"} /\ w[2] = "="
    /\ \A k \in 3 .. Len(w) : w[k] \in Digits

\* <W>x<H>
isSizeWord(w) ==
    \E x \in 2 .. (Len(w) - 1) :
        /\ w[x] \in {"x", "X"}
        /\ \A k \in DOMAIN w : k # x => w[k] \in Digits

NoSpan == [at |-> 0, len |-> 0]

\* the words of a kind that can be taken from a text: one of them, none when
\* there is none
taken(str, isKind(_)) ==
    LET spans == {span \in wordSpans(str) : isKind(wordAt(str, span))}
    IN  IF spans = {} THEN {NoSpan} ELSE spans

\* the text without a word
cut(str, span) ==
    IF span = NoSpan THEN str
    ELSE SubSeq(str, 1, span.at - 1) \o Drop(str, span.at + span.len - 1)

countWordNumber(w) == toNumber(Drop(w, 2))
sizeWordWidth(w) == toNumber(SubSeq(w, 1, (CHOOSE x \in DOMAIN w : w[x] \in {"x", "X"}) - 1))
sizeWordHeight(w) == toNumber(Drop(w, CHOOSE x \in DOMAIN w : w[x] \in {"x", "X"}))

\* the smallest supported size that covers a width and a height, the largest
\* when none does
coveringSize(width, height) ==
    LET covering == {i \in DOMAIN supportedImageSizes :
                        /\ supportedImageSizes[i].width >= width
                        /\ supportedImageSizes[i].height >= height}
    IN  IF covering = {} THEN supportedImageSizes[Len(supportedImageSizes)]
        ELSE supportedImageSizes[CHOOSE i \in covering : \A j \in covering : i <= j]

\* an "/image" command was handled
imageHandled == last.op = "image"

imageArg == checkForCommand(last.text).arg

\* what "/image" did, given the count word and the size word it took
imageTaken(count, size, prompt) ==
    IF prompt = <<>>
    THEN /\ last.error = "CommandError" /\ last.shown = INVALID_ARGS_MSG
         /\ last.moderated = Undefined
         /\ last.image = NoImageRequest
         /\ properties = BaseProperties
    ELSE /\ last.moderated = prompt
         /\ last.image # NoImageRequest =>
               /\ last.image.prompt = prompt
               /\ last.image.n = IF count = NoSpan THEN 1
                                 ELSE countWordNumber(wordAt(imageArg, count))
               /\ size # NoSpan =>
                     last.image.size =
                         coveringSize(sizeWordWidth(wordAt(cut(imageArg, count), size)),
                                      sizeWordHeight(wordAt(cut(imageArg, count), size)))
         /\ (last.inputUp /\ last.image = NoImageRequest) =>
               /\ count # NoSpan
               /\ countWordNumber(wordAt(imageArg, count)) \notin 1 .. 10

\* C20: of the argument of "/image" one count word n=<count> and one size
\* word <W>x<H> are taken, whichever comes first and each only if there is
\* one, and the rest trimmed is the prompt; when that is empty the command
\* fails with the argument error, nothing is moderated, no ledger is written
\* and no image is requested
C20_ImageTokensIndependent ==
    imageHandled =>
        \E count \in taken(imageArg, isCountWord) :
            \E size \in taken(cut(imageArg, count), isSizeWord) :
                imageTaken(count, size, trim(cut(cut(imageArg, count), size)))

\* "/image" took the size before the count and kept the word between them
C20_Witness ==
    /\ imageHandled
    /\ imageArg = <<"3","0","0","X","2","0","0"," ","c","a","t"," ","n","=","3">>
    /\ last.image = [prompt |-> <<"c","a","t">>, n |-> 3, size |-> supportedImageSizes[2]]

\* "/image" of a count and a size without a prompt failed
C20_WitnessEmpty ==
    /\ imageHandled
    /\ imageArg = <<"n","=","3"," ","\n","5","1","2","x","5","1","2">>
    /\ last.error = "CommandError"

(***************************************************************************)
(* commandImage applied to the requested sizes                             *)
(***************************************************************************)
\* the widths and heights asked for: around each supported size
RequestedSides == {0, 255, 256, 257, 512, 513, 1024, 1025}

\* "/image <W>x<H> cat"
CmdImageOfSize(width, height) ==
    <<"/","i","m","a","g","e"," ">> \o decimal(width) \o <<"x">> \o decimal(height) \o <<" ","c","a","t">>

InitImageSizes ==
    /\ properties = BaseProperties
    /\ now = 0
    /\ lastCreate = -1
    /\ last \in {[NoEvent EXCEPT !.text = CmdImageOfSize(width, height)] :
                    width \in RequestedSides, height \in RequestedSides}

SpecImageSizes == InitImageSizes /\ [][NextImageArgs]_vars

\* the image service was asked for the size width x height
asksSize(width, height) ==
    /\ imageHandled /\ last.image # NoImageRequest
    /\ last.text = CmdImageOfSize(width, height)

\* a supported size that is at least as wide and as high
covers(size, width, height) == size.width >= width /\ size.height >= height

\* C21: the size sent to the image service for a requested size WxH is the
\* smallest of 256x256, 512x512 and 1024x1024 that is at least W wide and at
\* least H high, and 1024x1024 when none is
C21_SizeSnapped ==
    \A width \in RequestedSides, height \in RequestedSides :
        asksSize(width, height) =>
            LET sizes == Range(supportedImageSizes)
                covering == {size \in sizes : covers(size, width, height)}
            IN  /\ last.image.size \in sizes
                /\ covering # {} =>
                      /\ last.image.size \in covering
                      /\ \A size \in covering : last.image.size.width <= size.width
                                                /\ last.image.size.height <= size.height
                /\ covering = {} =>
                      \A size \in sizes : size.width <= last.image.size.width
                                          /\ size.height <= last.image.size.height

\* 256x257 was asked for and 512x512 was sent
C21_Witness ==
    /\ asksSize(256, 257)
    /\ last.image.size = [width |-> 512, height |-> 512]
    /\ last.error = "none"

\* 1025x0 was asked for and the largest size was sent
C21_WitnessLargest ==
    /\ asksSize(1025, 0)
    /\ last.image.size = [width |-> 1024, height |-> 1024]

(***************************************************************************)
(* commandImage applied to the requested counts                            *)
(***************************************************************************)
\* the counts asked for: none, and those around the range 1 to 10
RequestedCounts == {NotGiven} \cup {<<n>> : n \in {0, 1, 2, 4, 5, 10, 11, 12, 100}}

\* the prompts of the image commands: one that passes the moderation, one that is flagged
ImagePrompts == {<<"c","a","t">>, TextBad}

\* "/image [n=<count>] [512x512] <prompt>"
CmdImageOfCount(count, sized, prompt) ==
    <<"/","i","m","a","g","e"," ">>
    \o (IF count = NotGiven THEN <<>> ELSE <<"n","=">> \o decimal(count[1]) \o <<" ">>)
    \o (IF sized THEN <<"5","1","2","x","5","1","2"," ">> ELSE <<>>)
    \o prompt

InitImageCounts ==
    /\ properties = BaseProperties
    /\ now = 0
    /\ lastCreate = -1
    /\ last \in {[NoEvent EXCEPT !.text = CmdImageOfCount(count, sized, prompt)] :
                    count \in RequestedCounts, sized \in BOOLEAN, prompt \in ImagePrompts}

SpecImageCounts == InitImageCounts /\ [][NextImageArgs]_vars

\* "/image" with the count and an unflagged prompt was handled and the
\* moderation answered
countHandled(count) ==
    /\ imageHandled /\ last.inputUp
    /\ \E sized \in BOOLEAN : last.text = CmdImageOfCount(count, sized, <<"c","a","t">>)

\* the count brought into the range 1 to 10
clamped(n) == IF n < 1 THEN 1 ELSE IF n > 10 THEN 10 ELSE n

\* C22 as stated: every "/image" with a prompt that passes the moderation asks
\* the image service for the given count brought into the range 1 to 10, for
\* one image when no count is given
C22_CountClamped ==
    \A count \in RequestedCounts :
        countHandled(count) =>
            /\ last.image # NoImageRequest
            /\ last.image.n = IF count = NotGiven THEN 1 ELSE clamped(count[1])

\* C22 amended: a count from 1 to 10 is sent as given and no count as 1; a
\* count outside 1 to 10 is refused with the image generation error "Option n
\* must be an integer from 1 to 10" and the image service is asked for
\* nothing; hence every image request has a count from 1 to 10
C22_CountCheckedNotClamped ==
    /\ \A count \in RequestedCounts :
          countHandled(count) =>
              IF count = NotGiven \/ count[1] \in 1 .. 10
              THEN /\ last.image # NoImageRequest
                   /\ last.image.n = IF count = NotGiven THEN 1 ELSE count[1]
              ELSE /\ last.image = NoImageRequest
                   /\ last.error = "ImageGenerationError"
                   /\ last.shown = "Option n must be an integer from 1 to 10"
    /\ (imageHandled /\ last.image # NoImageRequest) => last.image.n \in 1 .. 10

\* "/image n=11 cat" was refused
C22_Witness ==
    /\ countHandled(<<11>>)
    /\ last.error = "ImageGenerationError"
    /\ last.image = NoImageRequest
    /\ last.moderated = <<"c","a","t">>

(***************************************************************************)
(* onMessage applied to chat messages, commands and malformed commands     *)
(***************************************************************************)
\* texts that do not start with the command prefix once trimmed
PlainTexts == {<<" ","h","i"," ">>, <<"h","i"," ","/","s","e","t"," ","F","O","O"," ","b">>, <<"a","/","b">>}

\* texts that start with the command prefix and are not a command
MalformedTexts ==
    {<<"/">>, <<"/","1","x">>, <<"/"," ","s","e","t"," ","F","O","O"," ","b">>, <<"/","s","e","-","t"," ","F","O","O"," ","b">>, <<"/","/","a","g","a","i","n">>, <<" ","/","?"," ">>, <<"/","a","g","a","i","n","/">>}

UNRECOGNIZED_FORMAT_MSG == "Unrecognized command format, try \"/help\""

\* the texts that are no commands of the application
OtherTexts == PlainTexts \cup MalformedTexts

\* a message that is not a command arrives
OnMessagePlain ==
    \E text \in OtherTexts :
        /\ checkForCommand(text).kind = "chat"
        /\ ChatOf(text)

\* a message that starts with the command prefix and does not match COMMAND_REGEX arrives
OnMessageMalformed ==
    \E text \in OtherTexts :
        /\ checkForCommand(text).kind = "format"
        /\ \E space \in Spaces, sender \in Senders :
              /\ handled < MaxEvents
              /\ now > lastCreate
              /\ properties' = properties
              /\ last' = Handled("format", Message(space, sender, now, text), FALSE, NoRequest,
                                 Undefined, ChatError("CommandError", UNRECOGNIZED_FORMAT_MSG),
                                 Undefined, NoSave)
              /\ lastCreate' = now
              /\ now' = now + HandleMillis

InitRecognize ==
    /\ properties \in ChattedStores
    /\ now = TickMillis
    /\ lastCreate = 0
    /\ last = NoEvent

NextRecognize == OnMessagePlain \/ OnMessageMalformed \/ OnMessageSet \/ OnMessageAgain

SpecRecognize == InitRecognize /\ [][NextRecognize]_vars

(***************************************************************************)
(* Claims about the recognition of commands                                *)
(***************************************************************************)
\* the text is "/", an identifier, and then nothing or white space and anything
wellFormedCommand(text) ==
    /\ Len(text) >= 2 /\ text[1] = "/" /\ IsIdentStart(text[2])
    /\ \E k \in 2 .. Len(text) :
          /\ \A i \in 2 .. k : IsWord(text[i])
          /\ (k = Len(text) \/ IsSpace(text[k + 1]))

\* a message is handled in this step
messageHandled == lastCreate' # lastCreate

sentText == trim(last'.text)

\* C23: a message whose trimmed text does not start with "/" is handled as a
\* chat message; one that starts with "/" and is not "/", an identifier and
\* then nothing or white space and arguments gets the command error
\* "Unrecognized command format", asks for no completion and leaves the store
\* as it is; a well-formed command is neither
C23_CommandRecognition ==
    [][messageHandled =>
          /\ (Len(sentText) = 0 \/ sentText[1] # "/") =>
                /\ last'.op = "chat"
                /\ last'.error = "none" => last'.request # NoRequest
          /\ (Len(sentText) > 0 /\ sentText[1] = "/" /\ ~wellFormedCommand(sentText)) =>
                /\ last'.op = "format"
                /\ last'.error = "CommandError"
                /\ last'.shown = UNRECOGNIZED_FORMAT_MSG
                /\ last'.request = NoRequest
                /\ properties' = properties
          /\ wellFormedCommand(sentText) => last'.op \notin {"chat", "format"}]_vars

\* a malformed command was refused in a room that has a ledger
C23_Witness ==
    /\ last.op = "format" /\ last.text = <<"/","1","x">>
    /\ last.error = "CommandError"
    /\ Len(storedMessages(properties, SpaceRoom.name)) > 0

\* a text with a slash inside was completed as a chat message
C23_WitnessChat ==
    /\ last.op = "chat" /\ last.text = <<"h","i"," ","/","s","e","t"," ","F","O","O"," ","b">>
    /\ last.error = "none" /\ last.saved

\* ---------------------------------------------------------------------------
\* Introductions: "/intro" and the added-to-space event
\* ---------------------------------------------------------------------------

CMD_INTRO == <<"i","n","t","r","o">>

\* the default texts, shortened
DEFAULT_INTRODUCTION == <<"H","i","!"," ","I","'","m"," ","a"," ","c","h","a","t"," ","a","p","p",".">>
DEFAULT_INTRODUCTION_PROMPT == <<"I","n","t","r","o","d","u","c","e"," ","C","h","a","t","G","P","T"," ","b","r","i","e","f","l","y"," ","t","o"," ","t","h","e"," ","u","s","e","r",".">>

\* a stored property read as a JSON string: the text between the quotes, or a
\* syntax error for a value that is not a quoted string
getJSONString(props, property) ==
    IF ~hasProperty(props, property)
    THEN [error |-> NoError, value |-> Undefined]
    ELSE LET value == props[property]
         IN  IF /\ Len(value) >= 2
                /\ value[1] = "\"" /\ value[Len(value)] = "\""
                /\ \A i \in 2 .. Len(value) - 1 : value[i] \notin {"\"", "\\"}
             THEN [error |-> NoError, value |-> SubSeq(value, 2, Len(value) - 1)]
             ELSE [error |-> OtherError("SyntaxError", "Unexpected token in JSON"),
                   value |-> Undefined]

getIntroduction(props) ==
    LET stored == getJSONString(props, PROP_INTRODUCTION)
    IN  IF stored.error # NoError THEN stored
        ELSE IF stored.value = Undefined THEN [error |-> NoError, value |-> DEFAULT_INTRODUCTION]
        ELSE stored

getIntroductionPrompt(props) ==
    LET stored == getJSONString(props, PROP_INTRODUCTION_PROMPT)
    IN  IF stored.error # NoError THEN stored
        ELSE IF stored.value = Undefined
        THEN [error |-> NoError, value |-> DEFAULT_INTRODUCTION_PROMPT]
        ELSE stored

\* the introduction prompt as the added-to-space handler reads it: the raw
\* property string
getIntroductionPromptRaw(props) ==
    IF hasProperty(props, PROP_INTRODUCTION_PROMPT)
    THEN getStringProperty(props, PROP_INTRODUCTION_PROMPT)
    ELSE DEFAULT_INTRODUCTION_PROMPT

requestSimpleCompletion(props, prompt, skipInit, time, fetch, serviceUp) ==
    requestChatCompletion(props, <<[time |-> time, role |-> ROLE_USER, text |-> prompt]>>,
                          Undefined, skipInit, time, fetch, serviceUp)

NoCompletion ==
    [request |-> NoRequest, completion |-> Undefined, text |-> Undefined, error |-> NoError]

\* the guarded block of the introduction: moderation of the prompt, then the
\* completion; "error" is what the block throws
introductionCompletion(props, prompt, skipInit, time, inputUp, fetch, outputUp) ==
    IF prompt.error # NoError
    THEN [moderated |-> Undefined, out |-> [NoCompletion EXCEPT !.error = prompt.error]]
    ELSE IF prompt.value = <<>> \/ prompt.value = <<"n","o","n","e">>
    THEN [moderated |-> Undefined, out |-> NoCompletion]
    ELSE LET moderation == checkModeration(props, prompt.value, inputUp)
         IN  IF moderation # NoError
             THEN [moderated |-> prompt.value, out |-> [NoCompletion EXCEPT !.error = moderation]]
             ELSE [moderated |-> prompt.value,
                   out |-> requestSimpleCompletion(props, prompt.value, skipInit, time, fetch,
                                                   outputUp)]

\* the introduction when what the guarded block throws is thrown on
introductionResponseThrown(introduction, block) ==
    [text |-> introduction.value,
     card |-> IF block.out.error = NoError /\ block.out.text # Undefined /\ block.out.text # <<>>
              THEN block.out.text ELSE Undefined,
     logged |-> "none",
     moderated |-> block.moderated,
     request |-> block.out.request,
     completion |-> block.out.completion,
     error |-> IF introduction.error # NoError THEN introduction.error ELSE block.out.error]

\* the response of the introduction: the static text, with the completion as
\* a card when the guarded block produced a non-empty text; what the block
\* throws is logged and otherwise ignored
introductionResponse(introduction, block) ==
    [text |-> introduction.value,
     card |-> IF block.out.error = NoError /\ block.out.text # Undefined /\ block.out.text # <<>>
              THEN block.out.text ELSE Undefined,
     logged |-> block.out.error.class,
     moderated |-> block.moderated,
     request |-> block.out.request,
     completion |-> block.out.completion,
     error |-> introduction.error]

commandIntro(props, time, inputUp, fetch, outputUp) ==
    introductionResponse(getIntroduction(props),
        introductionCompletion(props, getIntroductionPrompt(props), FALSE, time, inputUp, fetch,
                               outputUp))

onAddToSpace(props, time, inputUp, fetch, outputUp) ==
    introductionResponse(getIntroduction(props),
        introductionCompletion(props, [error |-> NoError, value |-> getIntroductionPromptRaw(props)],
                               TRUE, time, inputUp, fetch, outputUp))

Introduced(op, message, inputUp, out) ==
    [Handled(op, message, inputUp, out.request, out.completion, out.error,
             IF out.error = NoError THEN out.text ELSE Undefined, NoSave)
        EXCEPT !.moderated = out.moderated, !.card = out.card, !.logged = out.logged]

IntroTexts == {<<"/","i","n","t","r","o">>, <<"/","i","n","t","r","o"," ","n","o","w">>}

\* an "/intro" command arrives
OnMessageIntro ==
    \E text \in IntroTexts :
        /\ checkForCommand(text).kind = "command" /\ checkForCommand(text).cmd = CMD_INTRO
        /\ \E space \in Spaces, sender \in ChatSenders, env \in Environments :
              LET message == Message(space, sender, now, text)
              IN  /\ handled < MaxEvents
                  /\ message.createTime > lastCreate
                  /\ last' = Introduced("intro", message, env.inputUp,
                                        commandIntro(properties, now, env.inputUp, env.fetch,
                                                     env.outputUp))
                  /\ lastCreate' = message.createTime
                  /\ now' = now + HandleMillis
                  /\ UNCHANGED properties

\* the app is added to a space
OnAddToSpace ==
    \E space \in Spaces, sender \in ChatSenders, env \in Environments :
        LET message == Message(space, sender, now, <<>>)
        IN  /\ handled < MaxEvents
            /\ last' = Introduced("added", message, env.inputUp,
                                  onAddToSpace(properties, now, env.inputUp, env.fetch,
                                               env.outputUp))
            /\ now' = now + HandleMillis
            /\ UNCHANGED <<properties, lastCreate>>

\* ---------------------------------------------------------------------------
\* The messages of the completion requests
\* ---------------------------------------------------------------------------

TextNice == <<"b","e"," ","n","i","c","e">>
TextBrief == <<"b","e"," ","b","r","i","e","f">>

InitStores ==
    {BaseProperties,
     commandInit(BaseProperties, TextNice, Message(SpaceDm, U1, 0, <<"/","i","n","i","t"," ","b","e"," ","n","i","c","e">>)).properties}

RequestStores ==
    LET chatted(p) ==
            onMessageChat(p, Message(SpaceRoom, U2, 0, TextHi), 0, TRUE,
                          CHOOSE f \in Fetches : f.kind # "error" /\ f.content \notin FlaggedTexts,
                          TRUE, 0, TRUE).properties
        instructed(p) == updateConfiguration(p, SpaceRoom.name, "instructions", TextBrief, 0)
        ledgers(p) == {p, chatted(p)}
        scopes(p) == {p, instructed(p)}
    IN  UNION {UNION {scopes(q) : q \in ledgers(p)} : p \in InitStores}

InitRequests ==
    /\ properties \in RequestStores
    /\ now = TickMillis
    /\ last = NoEvent
    /\ lastCreate = 0

NextRequests == OnMessageChat \/ OnMessageAgain \/ OnMessageIntro \/ OnAddToSpace

SpecRequests == InitRequests /\ [][NextRequests]_vars

\* a request was sent in this step
requestSent == now' # now /\ last'.request # NoRequest

\* the request is exactly init, then instr, then the entries one by one
carries(request, init, instr, ledger) ==
    /\ Len(request) = Len(init) + Len(instr) + Len(ledger)
    /\ \A i \in DOMAIN init : request[i] = init[i]
    /\ \A i \in DOMAIN instr : request[Len(init) + i] = instr[i]
    /\ \A i \in DOMAIN ledger :
          /\ request[Len(init) + Len(instr) + i].role = ledger[i].role
          /\ request[Len(init) + Len(instr) + i].content = ledger[i].text

initSequence ==
    IF hasProperty(properties, PROP_CHAT_COMPLETION_INIT)
    THEN properties[PROP_CHAT_COMPLETION_INIT] ELSE <<>>

scopeInstructions ==
    IF getInstructions(properties, last'.space) = Undefined THEN <<>>
    ELSE <<[role |-> "system", content |-> getInstructions(properties, last'.space)]>>

\* the entries the request is made for: the ledger of the scope with the new
\* message, the ledger "/again" repeats, or the one prompt of an introduction
requestLedger ==
    IF last'.op = "chat"
    THEN Append(ledgerRead, [time |-> now, role |-> ROLE_USER, text |-> last'.text])
    ELSE IF last'.op = "again" THEN remaining
    ELSE <<[time |-> now, role |-> ROLE_USER, text |-> last'.moderated]>>

C24_WitnessIntro ==
    /\ last.op = "intro"
    /\ getInstructions(properties, last.space) # Undefined
    /\ last.request # NoRequest

\* ---------------------------------------------------------------------------
\* The responses of the completion service
\* ---------------------------------------------------------------------------

\* the responses of the service: a failure, no choice, a first choice whose
\* content is no string, and contents that are empty, blank and not
ResponseFetches ==
    Fetches
    \cup {[kind |-> k, content |-> Undefined] : k \in {"nochoice", "nostring"}}
    \cup {[kind |-> "content", content |-> c] : c \in {<<>>, <<" "," ">>}}

\* a chat message arrives and the completion service answers
OnMessageChatResponse ==
    \E text \in ChatTexts, space \in ChatSpaces, sender \in ChatSenders,
       fetch \in ResponseFetches, outputUp \in BOOLEAN :
        LET message == Message(space, sender, now, text)
            out == onMessageChat(properties, message, now, TRUE, fetch, outputUp, 0, TRUE)
        IN  /\ handled < MaxEvents
            /\ message.createTime > lastCreate
            /\ Len(storedMessages(properties, space.name)) < MaxMessages
            /\ properties' = out.properties
            /\ last' = [out.last EXCEPT !.pending = pendingImage(properties, space.name)]
            /\ lastCreate' = message.createTime
            /\ now' = now + HandleMillis

NextResponses == OnMessageChatResponse \/ OnMessageAgain

SpecResponses == InitRecognize /\ [][NextResponses]_vars

\* C25 as stated: a completion is accepted only with non-empty text; after an
\* empty one the event is an error and the ledger has no empty assistant entry
C25_EmptyCompletionRefused ==
    /\ (last.op = "chat" /\ last.error = "none") =>
          (last.completion # Undefined /\ last.completion # <<>>)
    /\ \A space \in Spaces : \A i \in DOMAIN storedMessages(properties, space.name) :
          storedMessages(properties, space.name)[i].role = ROLE_ASSISTANT =>
              storedMessages(properties, space.name)[i].text # <<>>

\* ---------------------------------------------------------------------------
\* The moderation check on the result lists of the service
\* ---------------------------------------------------------------------------

MaxResults == 3

\* the items of a result list: flagged, not flagged, and one without "flagged"
ModerationItems == {[flagged |-> TRUE], [flagged |-> FALSE], [categories |-> <<>>]}

ModerationLists == UNION {[1 .. n -> ModerationItems] : n \in 0 .. MaxResults}

InitModeration ==
    /\ properties \in {BaseProperties, deleteProperty(BaseProperties, PROP_OPENAI_API_KEY)}
    /\ now = 0
    /\ lastCreate = -1
    /\ \E results \in ModerationLists, serviceUp \in BOOLEAN :
          last = [op |-> "none", results |-> results, serviceUp |-> serviceUp, error |-> "none"]

\* checkModeration(input) when the service answers with the list drawn
ApplyCheckModeration ==
    /\ last.op = "none"
    /\ last' = [last EXCEPT !.op = "checkModeration",
                            !.error = checkModerationOf(properties, last.results,
                                                        last.serviceUp).class]
    /\ UNCHANGED <<properties, now, lastCreate>>

NextModeration == ApplyCheckModeration

SpecModeration == InitModeration /\ [][NextModeration]_vars

\* the check ran on a result list the service gave
moderationJudged ==
    /\ last.op = "checkModeration"
    /\ hasOpenAIAPIKey(properties) /\ last.serviceUp
    /\ isModerationResponse(last.results)

\* C26: on a result list of one or more items the check raises the
\* flagged-content error exactly when some item has flagged = true, and passes
\* exactly when every item has flagged = false
C26_FlaggedIffSomeItemFlagged ==
    moderationJudged =>
        /\ last.error = "ModerationFlaggedError" <=>
              \E i \in DOMAIN last.results : last.results[i].flagged = TRUE
        /\ last.error = "none" <=>
              \A i \in DOMAIN last.results : last.results[i].flagged = FALSE
        /\ last.error \in {"ModerationFlaggedError", "none"}

\* a list of three items whose last item alone is flagged was refused
C26_Witness ==
    /\ moderationJudged
    /\ last.results = <<[flagged |-> FALSE], [flagged |-> FALSE], [flagged |-> TRUE]>>
    /\ last.error = "ModerationFlaggedError"

\* a list of one item that is not flagged passed
C26_WitnessOneItem ==
    /\ moderationJudged
    /\ last.results = <<[flagged |-> FALSE]>>
    /\ last.error = "none"

\* ---------------------------------------------------------------------------
\* "/intro" under failing services
\* ---------------------------------------------------------------------------

TextWelcome == <<"W","e","l","c","o","m","e">>

\* the stored introduction prompts: none, and the JSON strings "none", "",
\* "bad" and "hi"
IntroPromptValues == {<<"\"","n","o","n","e","\"">>, <<"\"","\"">>, <<"\"","b","a","d","\"">>, <<"\"","h","i","\"">>}

IntroStores ==
    LET keyed == {BaseProperties, deleteProperty(BaseProperties, PROP_OPENAI_API_KEY)}
        introduced(p) == {p, setProperty(p, PROP_INTRODUCTION, <<"\"","W","e","l","c","o","m","e","\"">>)}
        prompted(p) == {p} \cup {setProperty(p, PROP_INTRODUCTION_PROMPT, v) : v \in IntroPromptValues}
    IN  UNION {UNION {prompted(q) : q \in introduced(p)} : p \in keyed}

InitIntro ==
    /\ properties \in IntroStores
    /\ now = TickMillis
    /\ lastCreate = 0
    /\ last = NoEvent

NextIntro == OnMessageIntro

SpecIntro == InitIntro /\ [][NextIntro]_vars

introHandled == now' # now /\ last'.op = "intro"

staticIntroduction ==
    IF hasProperty(properties, PROP_INTRODUCTION) THEN TextWelcome ELSE DEFAULT_INTRODUCTION

\* C27: "/intro" answers with the static introduction and no error, whatever
\* the services do; when the moderation of the prompt or the completion
\* fails, the failure is logged and the answer has no completion section; a
\* completion section is there only when nothing failed, and it is the
\* completion
C27_IntroAlwaysStatic ==
    [][introHandled =>
          /\ last'.error = "none" /\ last'.shown = ""
          /\ last'.response = staticIntroduction
          /\ properties' = properties
          /\ (last'.moderated # Undefined /\ ~hasOpenAIAPIKey(properties)) =>
                last'.logged = "OpenAIConfigurationError"
          /\ (last'.moderated # Undefined /\ hasOpenAIAPIKey(properties) /\ ~last'.inputUp) =>
                last'.logged = "ModerationError"
          /\ (hasOpenAIAPIKey(properties) /\ last'.inputUp /\ last'.moderated \in FlaggedTexts) =>
                last'.logged = "ModerationFlaggedError"
          /\ (last'.request # NoRequest /\ last'.completion = Undefined) =>
                last'.logged = "ChatCompletionError"
          /\ last'.completion \in FlaggedTexts => last'.logged \in {"ModerationFlaggedError", "ModerationError"}
          /\ last'.logged # "none" => last'.card = Undefined
          /\ last'.card # Undefined =>
                (last'.logged = "none" /\ last'.card = last'.completion)]_vars

\* the completion service failed and "/intro" answered with the static text
C27_Witness ==
    /\ last.op = "intro"
    /\ last.logged = "ChatCompletionError"
    /\ last.response = DEFAULT_INTRODUCTION
    /\ last.card = Undefined
    /\ last.error = "none"

\* the prompt was flagged by the moderation
C27_WitnessFlagged ==
    /\ last.op = "intro"
    /\ last.moderated = TextBad
    /\ last.logged = "ModerationFlaggedError"
    /\ last.response = TextWelcome

\* nothing failed and the answer has the completion section
C27_WitnessCompletion ==
    /\ last.op = "intro"
    /\ last.card = TextOk

\* ---------------------------------------------------------------------------
\* The removed-from-space event
\* ---------------------------------------------------------------------------

\* removeHistoriesForSpace(space) deleting the ledger of the space alone
removeHistoriesForSpaceUnthreaded(props, space) ==
    [key \in DOMAIN props \ {HISTORY_PREFIX \o space.name} |-> props[key]]

\* removeHistoriesForSpace(space): deletes the ledgers whose key starts with
\* the key of the space
removeHistoriesForSpace(props, space) ==
    [key \in {k \in DOMAIN props : ~startsWith(k, HISTORY_PREFIX \o space.name)} |-> props[key]]

onRemoveFromSpace(props, space) == removeHistoriesForSpace(props, space)

\* the names of the threads of a space
ThreadNames(space) == {space.name \o <<"/","t","h","r","e","a","d","s","/","t","1">>, space.name \o <<"/","t","h","r","e","a","d","s","/","t","2">>}

\* the keys a ledger of the space or of one of its threads is stored under
ScopeKeys(space) == {HISTORY_PREFIX \o name : name \in {space.name} \cup ThreadNames(space)}

LedgerOf(key) ==
    [space |-> SubSeq(key, Len(HISTORY_PREFIX) + 1, Len(key)),
     messages |-> <<[time |-> 0, role |-> ROLE_USER, text |-> TextHi],
                    [time |-> 0, role |-> ROLE_ASSISTANT, text |-> TextOk]>>]

\* the stores before a removal: ledgers of rooms and threads, and
\* configurations of spaces
RemovalStores ==
    LET keys == ScopeKeys(SpaceRoom) \cup ScopeKeys(SpaceDm)
        ledgers == {[key \in held |-> LedgerOf(key)] @@ BaseProperties : held \in SUBSET keys}
        instructed(p) == {p, updateConfiguration(p, SpaceRoom.name, "instructions", TextBrief, 0)}
        tempered(p) == {p, updateConfiguration(p, SpaceDm.name, "temperature", <<1>>, 0)}
    IN  UNION {UNION {tempered(q) : q \in instructed(p)} : p \in ledgers}

InitRemoval ==
    /\ properties \in RemovalStores
    /\ now = TickMillis
    /\ lastCreate = 0
    /\ last = NoEvent

\* the app is removed from a space
OnRemoveFromSpace ==
    \E space \in Spaces :
        /\ handled < MaxEvents
        /\ properties' = onRemoveFromSpace(properties, space)
        /\ last' = Handled("removed", Message(space, U2, now, <<>>), FALSE, NoRequest, Undefined,
                           NoError, Undefined, NoSave)
        /\ now' = now + HandleMillis
        /\ UNCHANGED lastCreate

NextRemoval == OnRemoveFromSpace \/ OnMessageIntro

SpecRemoval == InitRemoval /\ [][NextRemoval]_vars

spaceRemoved == now' # now /\ last'.op = "removed"

\* the key of the ledger of the space or of a thread of the space
ledgerKeyIn(key, spaceName) ==
    \/ key = HISTORY_PREFIX \o spaceName
    \/ startsWith(key, HISTORY_PREFIX \o spaceName \o <<"/">>)

\* C28: after the removal from a space the store holds no ledger of the space
\* and none of a thread of the space, and every other property, the ledgers of
\* the other spaces and of their threads among them, is as it was
C28_RemovalDeletesScopeLedgers ==
    [][spaceRemoved =>
          /\ \A key \in DOMAIN properties' : ~ledgerKeyIn(key, last'.space)
          /\ \A key \in DOMAIN properties :
                ~ledgerKeyIn(key, last'.space) =>
                    (key \in DOMAIN properties' /\ properties'[key] = properties[key])]_vars

\* the removed space had a ledger and a ledger of a thread, and another space
\* keeps its ledgers
C28_Witness ==
    /\ last.op = "removed" /\ last.space = SpaceRoom.name
    /\ \A key \in ScopeKeys(SpaceRoom) : ~hasProperty(properties, key)
    /\ \A key \in ScopeKeys(SpaceDm) : hasProperty(properties, key)

\* C29 as stated: after the removal from a space the space has no
\* configuration entry
C29_RemovalDeletesConfiguration ==
    [][spaceRemoved => ~hasConfiguration(properties', last'.space)]_vars

\* ---------------------------------------------------------------------------
\* The sweep over all stored ledgers
\* ---------------------------------------------------------------------------

\* what a ledger key can hold before a sweep: ledgers that are empty, expired
\* and not, and a value that is no ledger
SweptValues(spaceName) ==
    {[space |-> spaceName, messages |-> LedgerOfAges(ages)] :
        ages \in {{}, {90}, {120, 90}, {40}, {5}, {90, 5}}}
    \cup {[text |-> TextHi]}

SweepKeys == {HISTORY_PREFIX \o SpaceRoom.name, HISTORY_PREFIX \o SpaceDm.name}

SweepStores ==
    {[key \in held |-> IF key = RoomKey THEN room ELSE dm] @@ BaseProperties :
        held \in SUBSET SweepKeys,
        room \in SweptValues(SpaceRoom.name), dm \in SweptValues(SpaceDm.name)}

InitSweep ==
    /\ properties \in SweepStores
    /\ now = PruneNow
    /\ lastCreate = -1
    /\ last = NoCall

\* pruneHistories()
ApplyPruneHistories ==
    /\ last.op = "none"
    /\ properties' = pruneHistories(properties, now)
    /\ last' = [NoCall EXCEPT !.op = "pruneHistories"]
    /\ UNCHANGED <<now, lastCreate>>

NextSweep == ApplyPruneHistories

SpecSweep == InitSweep /\ [][NextSweep]_vars

\* the value is a ledger whose newest entry is within the retention window
liveLedger(value) ==
    /\ isChatHistory(value)
    /\ Len(value.messages) > 0
    /\ differenceMillis(now, value.messages[Len(value.messages)].time) <= getHistoryMillis

\* C30 as stated: after a sweep every ledger key left in the store holds a
\* ledger with an entry within the retention window, and every such ledger is
\* still there
C30_SweepDeletesExpired ==
    last.op = "pruneHistories" =>
        \A key \in DOMAIN properties :
            startsWith(key, HISTORY_PREFIX) => liveLedger(properties[key])

\* ---------------------------------------------------------------------------
\* Stored ledgers that are corrupt
\* ---------------------------------------------------------------------------

\* a string that is no JSON, and an object that is no ledger
RawValue == [raw |-> <<"{">>]
NoLedgerValue == [text |-> TextHi]

CorruptStores ==
    {[key \in held |-> IF key = RoomKey THEN room ELSE dm] @@ BaseProperties :
        held \in SUBSET SweepKeys,
        room \in {RoomHistory(<<[time |-> 0, role |-> ROLE_USER, text |-> TextHi]>>),
                  RawValue, NoLedgerValue},
        dm \in {RawValue, NoLedgerValue}}

InitCorrupt ==
    /\ properties \in CorruptStores
    /\ now = TickMillis
    /\ lastCreate = 0
    /\ last = NoEvent

NextCorrupt == OnMessageChat

SpecCorrupt == InitCorrupt /\ [][NextCorrupt]_vars

\* the value stored under the key is no ledger
corrupt(props, key) == hasProperty(props, key) /\ ~isChatHistory(props[key])

\* a chat message passed the moderation of the input
chatModerated ==
    /\ now' # now /\ last'.op = "chat"
    /\ \/ last'.error \notin {"ModerationError", "ModerationFlaggedError",
                              "OpenAIConfigurationError"}
       \/ last'.request # NoRequest

\* C31 as stated: a chat message for a scope whose stored ledger is corrupt is
\* answered on a fresh ledger that holds the message alone, and after the sweep
\* that ends the handling no corrupt value is left under a ledger key
C31_CorruptLedgerAbsent ==
    [][chatModerated =>
          /\ corrupt(properties, HISTORY_PREFIX \o last'.space) =>
                /\ last'.error # "SyntaxError"
                /\ last'.request =
                       toChatCompletionMessagesOf(properties,
                           <<[time |-> lastCreate', role |-> ROLE_USER, text |-> last'.text]>>,
                           last'.space, FALSE)
          /\ (last'.error = "none" /\ last'.saved) =>
                \A key \in DOMAIN properties' :
                    startsWith(key, HISTORY_PREFIX) => ~corrupt(properties', key)]_vars

\* ---------------------------------------------------------------------------
\* Commands.ts: the command "/config"
\* ---------------------------------------------------------------------------

CMD_CONFIG == <<"c","o","n","f","i","g">>
OPTION_INSTRUCT == <<"i","n","s","t","r","u","c","t">>
OPTION_TEMPERATURE == <<"t","e","m","p","e","r","a","t","u","r","e">>
TEMPERATURE_RANGE_MSG == "Value of option 'temperature' must be between 0.0 and 2.0"
TEMPERATURE_NUMERIC_MSG == "Option 'temperature' value must be numeric, e.g. 1.0"
CONFIG_CLEARED_MSG == <<"C","o","n","f","i","g","u","r","a","t","i","o","n"," ","h","a","s"," ","b","e","e","n"," ","c","l","e","a","r","e","d"," ","f","o","r"," ","t","h","i","s"," ","c","h","a","t"," ","s","p","a","c","e",".">>
\* the help text of the options, shortened
DEFAULT_HELP_TEXT_CONFIG == <<"*","C","o","n","f","i","g","u","r","a","t","i","o","n"," ","o","p","t","i","o","n","s","*">>

allDigits(text) == \A i \in DOMAIN text : text[i] \in Digits

\* (?:0|[1-9]\d*)
isIntegerText(text) == text # <<>> /\ allDigits(text) /\ (Len(text) = 1 \/ text[1] # "0")

unsignedText(value) == IF value # <<>> /\ value[1] = "-" THEN Tail(value) ELSE value
integerText(value) ==
    IF indexOf(unsignedText(value), <<".">>) = 0 THEN unsignedText(value)
    ELSE SubSeq(unsignedText(value), 1, indexOf(unsignedText(value), <<".">>) - 1)
fractionText(value) ==
    IF indexOf(unsignedText(value), <<".">>) = 0 THEN <<>>
    ELSE Drop(unsignedText(value), indexOf(unsignedText(value), <<".">>))

\* DECIMAL_VALUE_REGEX = /^-?(?:(?:0|[1-9]\d*)|(?:0|[1-9]\d*)?\.\d+)$/
matchesDecimal(value) ==
    IF indexOf(unsignedText(value), <<".">>) = 0
    THEN isIntegerText(unsignedText(value))
    ELSE /\ integerText(value) = <<>> \/ isIntegerText(integerText(value))
         /\ fractionText(value) # <<>> /\ allDigits(fractionText(value))

RECURSIVE withoutZerosAtEnd(_)
withoutZerosAtEnd(digits) ==
    IF digits # <<>> /\ digits[Len(digits)] = "0"
    THEN withoutZerosAtEnd(SubSeq(digits, 1, Len(digits) - 1))
    ELSE digits

\* the number a decimal text stands for: its sign, its whole part and the
\* digits of its fraction; equal numbers are equal records
numberOf(value) ==
    LET whole == toNumber(integerText(value))
        fraction == withoutZerosAtEnd(fractionText(value))
    IN  [negative |-> value[1] = "-" /\ (whole # 0 \/ fraction # <<>>),
         whole |-> whole, fraction |-> fraction]

belowZero(number) == number.negative
aboveTwo(number) ==
    ~number.negative /\ (number.whole > 2 \/ (number.whole = 2 /\ number.fraction # <<>>))

\* JSON.parse of a text that matches DECIMAL_VALUE_REGEX throws when the whole
\* part is missing
jsonParsesNumber(value) == integerText(value) # <<>>

\* numericOptionValue refusing a value that is no decimal number
numericOptionValueStrict(option, value) ==
    IF value = Undefined THEN [error |-> NoError, value |-> NotGiven]
    ELSE IF ~matchesDecimal(value) \/ ~jsonParsesNumber(value)
    THEN [error |-> ChatError("CommandError", TEMPERATURE_NUMERIC_MSG), value |-> NotGiven]
    ELSE [error |-> NoError, value |-> <<numberOf(value)>>]

\* numericOptionValue(option, value)
numericOptionValue(option, value) ==
    IF value = Undefined \/ ~matchesDecimal(value) THEN [error |-> NoError, value |-> NotGiven]
    ELSE IF ~jsonParsesNumber(value)
    THEN [error |-> ChatError("CommandError", TEMPERATURE_NUMERIC_MSG), value |-> NotGiven]
    ELSE [error |-> NoError, value |-> <<numberOf(value)>>]

\* the response of commandConfigSet, without the markup
configSetResponse(option, value) ==
    <<"C","o","n","f","i","g","u","r","a","t","i","o","n"," ","o","p","t","i","o","n"," ","s","e","t",":","\n">> \o option \o <<":"," ">>
        \o (IF value = Undefined THEN <<"(","c","l","e","a","r","e","d",")">> ELSE value)

NoConfigSet(props, err) ==
    [properties |-> props, error |-> err, text |-> Undefined, moderated |-> Undefined]

\* commandConfigSet(space, option, value)
commandConfigSet(props, spaceName, option, value, time, inputUp) ==
    IF option = OPTION_INSTRUCT
    THEN LET moderation == IF value = Undefined THEN NoError
                           ELSE checkModeration(props, value, inputUp)
         IN  IF moderation # NoError
             THEN [NoConfigSet(props, moderation) EXCEPT !.moderated = value]
             ELSE [properties |-> updateConfiguration(props, spaceName, "instructions", value, time),
                   error |-> NoError, text |-> configSetResponse(option, value),
                   moderated |-> value]
    ELSE IF option = OPTION_TEMPERATURE
    THEN LET valueNum == numericOptionValue(option, value)
         IN  IF valueNum.error # NoError THEN NoConfigSet(props, valueNum.error)
             ELSE IF valueNum.value # NotGiven
                     /\ (belowZero(valueNum.value[1]) \/ aboveTwo(valueNum.value[1]))
             THEN NoConfigSet(props, ChatError("CommandError", TEMPERATURE_RANGE_MSG))
             ELSE [properties |-> updateConfiguration(props, spaceName, "temperature",
                                                     valueNum.value, time),
                   error |-> NoError, text |-> configSetResponse(option, value),
                   moderated |-> Undefined]
    ELSE NoConfigSet(props, ChatError("CommandError", INVALID_ARGS_MSG))

\* the text of a number
numberText(number) ==
    (IF number.negative THEN <<"-">> ELSE <<>>) \o decimal(number.whole)
    \o (IF number.fraction = <<>> THEN <<>> ELSE <<".">> \o number.fraction)

\* commandConfigShow(space), without the markup; the default temperature is
\* shown by its name
commandConfigShow(props, spaceName) ==
    joinLines(
        (IF hasConfiguration(props, spaceName) THEN <<>>
         ELSE <<<<"N","o"," ","c","o","n","f","i","g","u","r","a","t","i","o","n"," ","s","p","e","c","i","f","i","e","d"," ","f","o","r"," ","t","h","i","s"," ","c","h","a","t"," ","s","p","a","c","e",","," ","u","s","i","n","g"," ","d","e","f","a","u","l","t","s",".">>>>)
        \o <<<<"i","n","s","t","r","u","c","t",":"," ">>
               \o (IF getInstructions(props, spaceName) = Undefined THEN <<"<","n","o","n","e",">"," ","(","d","e","f","a","u","l","t",")">>
                   ELSE getInstructions(props, spaceName)),
             <<"t","e","m","p","e","r","a","t","u","r","e",":"," ">>
               \o (IF ~hasConfiguration(props, spaceName)
                      \/ getConfiguration(props, spaceName).temperature = NotGiven
                   THEN <<"<","d","e","f","a","u","l","t",">"," ","(","d","e","f","a","u","l","t",")">>
                   ELSE numberText(getConfiguration(props, spaceName).temperature[1]))>>)

\* commandConfig(arg, message)
commandConfig(props, arg, message, time, inputUp) ==
    LET lcarg == IF arg = Undefined THEN Undefined ELSE toLowerCase(trim(arg))
        match == IF arg = Undefined THEN NoMatch ELSE matchPropertyValue(trim(arg))
    IN  IF lcarg = <<"h","e","l","p">>
        THEN [NoConfigSet(props, NoError) EXCEPT !.text = DEFAULT_HELP_TEXT_CONFIG]
        ELSE IF lcarg = <<"c","l","e","a","r">>
        THEN [NoConfigSet(removeConfigurationForSpace(props, message.space.name), NoError)
                EXCEPT !.text = CONFIG_CLEARED_MSG]
        ELSE IF arg = Undefined \/ lcarg = <<>>
        THEN [NoConfigSet(props, NoError)
                EXCEPT !.text = commandConfigShow(props, message.space.name)]
        ELSE IF match.matched
        THEN commandConfigSet(props, message.space.name, match.name, match.rest, time, inputUp)
        ELSE NoConfigSet(props, ChatError("CommandError", INVALID_ARGS_MSG))

ConfigArgs ==
    {<<"h","e","l","p">>, <<"C","l","e","a","r">>, <<"i","n","s","t","r","u","c","t"," ","b","e"," ","b","r","i","e","f">>, <<"i","n","s","t","r","u","c","t"," ","b","a","d">>, <<"i","n","s","t","r","u","c","t">>,
     <<"t","e","m","p","e","r","a","t","u","r","e">>, <<"t","e","m","p","e","r","a","t","u","r","e"," ","0",".","5">>, <<"t","e","m","p","e","r","a","t","u","r","e"," ","3">>, <<"t","e","m","p","e","r","a","t","u","r","e"," ","a","b","c">>, <<"f","o","o"," ","1">>}

ConfigTexts == {<<"/","c","o","n","f","i","g">>} \cup {<<"/","c","o","n","f","i","g"," ">> \o arg : arg \in ConfigArgs}

\* "/config" handled: the store and the event record after it
ConfigOf(text, space, sender, inputUp) ==
    LET message == Message(space, sender, now, text)
        out == commandConfig(properties, checkForCommand(text).arg, message, now, inputUp)
    IN  /\ handled < MaxEvents
        /\ message.createTime > lastCreate
        /\ properties' = out.properties
        /\ last' = [Handled("config", message, inputUp, NoRequest, Undefined, out.error,
                            out.text, NoSave)
                      EXCEPT !.moderated = out.moderated]
        /\ lastCreate' = message.createTime
        /\ now' = now + HandleMillis

\* a "/config" command arrives
OnMessageConfig ==
    \E text \in ConfigTexts :
        /\ checkForCommand(text).kind = "command" /\ checkForCommand(text).cmd = CMD_CONFIG
        /\ \E space \in Spaces, inputUp \in BOOLEAN : ConfigOf(text, space, U2, inputUp)

\* the stores a "/config" command finds: no entry, or entries with
\* instructions, a temperature or both
ConfigStores ==
    LET instructed(p) == {p, updateConfiguration(p, SpaceRoom.name, "instructions", TextBrief, 0)}
        tempered(p) ==
            {p, updateConfiguration(p, SpaceRoom.name, "temperature", <<numberOf(<<"1">>)>>, 0)}
        other(p) == {p, updateConfiguration(p, SpaceDm.name, "instructions", TextNice, 0)}
    IN  UNION {UNION {UNION {other(r) : r \in tempered(q)} : q \in instructed(p)} :
                  p \in {BaseProperties}}

InitConfig ==
    /\ properties \in ConfigStores
    /\ now = TickMillis
    /\ lastCreate = 0
    /\ last = NoEvent

NextConfig == OnMessageConfig

SpecConfig == InitConfig /\ [][NextConfig]_vars

\* some overridable field of the entry of the space is set
someFieldSet(props, spaceName) ==
    /\ hasConfiguration(props, spaceName)
    /\ \/ getConfiguration(props, spaceName).instructions # Undefined
       \/ getConfiguration(props, spaceName).temperature # NotGiven

configHandled == now' # now /\ last'.op = "config"

\* C32: a space has an entry in the configuration exactly when one of its
\* overridable fields is set, in every store a sequence of "/config"
\* commands leaves; and a "/config" command leaves the entries of the other
\* spaces as they were
C32_NoEmptyConfiguration ==
    /\ [](\A space \in Spaces :
             hasConfiguration(properties, space.name) <=> someFieldSet(properties, space.name))
    /\ [][configHandled =>
             \A space \in Spaces :
                 space.name # last'.space =>
                     /\ hasConfiguration(properties', space.name)
                            <=> hasConfiguration(properties, space.name)
                     /\ hasConfiguration(properties, space.name) =>
                            getConfiguration(properties', space.name)
                                = getConfiguration(properties, space.name)]_vars

\* the last field of an entry was cleared by a command and the entry is gone
\* while the entry of the other space is there
C32_Witness ==
    /\ last.op = "config" /\ last.space = SpaceRoom.name
    /\ last.text = <<"/","c","o","n","f","i","g"," ","t","e","m","p","e","r","a","t","u","r","e">>
    /\ last.error = "none"
    /\ ~hasConfiguration(properties, SpaceRoom.name)
    /\ hasConfiguration(properties, SpaceDm.name)

\* ---------------------------------------------------------------------------
\* The error responses of the message handler
\* ---------------------------------------------------------------------------

\* stores in which the handlers fail in different ways: without the API key,
\* with a ledger, and with a stored ledger that is no JSON
ErrorStores ==
    ChattedStores
    \cup {deleteProperty(BaseProperties, PROP_OPENAI_API_KEY),
          setProperty(BaseProperties, RoomKey, RawValue)}

InitErrors ==
    /\ properties \in ErrorStores
    /\ now = TickMillis
    /\ lastCreate = 0
    /\ last = NoEvent

NextErrors ==
    \/ OnMessageChat
    \/ OnMessageMalformed
    \/ OnMessageAgain
    \/ OnMessageConfig

SpecErrors == InitErrors /\ [][NextErrors]_vars

\* the classes of the errors that are ChatErrors
ChatErrorClasses ==
    {"CommandError", "UnauthorizedError", "ModerationFlaggedError", "ChatCompletionError",
     "ImageGenerationError"}

\* C33: a handled message ends with a response or with one error response and
\* never with both; the error response shows the message of the error when
\* the error is a chat error and the generic text for every other error
C33_OneErrorResponse ==
    last.op # "none" =>
        /\ last.error = "none" => last.shown = ""
        /\ last.error # "none" => (last.response = Undefined /\ last.shown # "")
        /\ last.error \in ChatErrorClasses => last.shown # GENERIC_ERROR_MSG
        /\ last.error = "ModerationFlaggedError" =>
              last.shown = "Content was flagged by moderation"
        /\ last.error = "ChatCompletionError" =>
              last.shown = "Error while performing chat completion"
        /\ (last.error = "CommandError" /\ last.op = "format") =>
              last.shown = UNRECOGNIZED_FORMAT_MSG
        /\ last.error \notin ChatErrorClasses \cup {"none"} => last.shown = GENERIC_ERROR_MSG

\* the moderation service failed and the generic text was shown
C33_Witness ==
    /\ last.op = "chat"
    /\ last.error = "ModerationError"
    /\ last.shown = GENERIC_ERROR_MSG
    /\ last.response = Undefined

\* a stored ledger that is no JSON ended a chat message with the generic text
C33_WitnessSyntax ==
    /\ last.op = "chat" /\ last.error = "SyntaxError" /\ last.shown = GENERIC_ERROR_MSG

\* a command error showed its own message
C33_WitnessCommand ==
    /\ last.op = "config" /\ last.error = "CommandError" /\ last.shown = TEMPERATURE_RANGE_MSG

\* ---------------------------------------------------------------------------
\* Failures of the services
\* ---------------------------------------------------------------------------

NextUpstream == OnMessageChat \/ OnMessageImage

SpecUpstream == InitRecognize /\ [][NextUpstream]_vars

COMPLETION_FAILED_MSG == "Error while performing chat completion"
IMAGE_FAILED_MSG == "Error while doing image generation"

\* the moderation, the completion or the image service failed
moderationServiceFailed == last.error = "ModerationError"
completionServiceFailed == last.error = "ChatCompletionError"
imageServiceFailed ==
    last.error = "ImageGenerationError" /\ last.shown # "Option n must be an integer from 1 to 10"

\* C34 as stated: a failure of a service is shown as the generic text
C34_UpstreamErrorGeneric ==
    (moderationServiceFailed \/ completionServiceFailed \/ imageServiceFailed) =>
        last.shown = GENERIC_ERROR_MSG

\* C34: a failure of the moderation service is shown as the generic text; a
\* failure of the completion service or of the image service is shown as the
\* fixed message of the chat error that wraps it; the response is withheld
C34_UpstreamErrorShown ==
    /\ moderationServiceFailed => last.shown = GENERIC_ERROR_MSG
    /\ completionServiceFailed => last.shown = COMPLETION_FAILED_MSG
    /\ imageServiceFailed => last.shown = IMAGE_FAILED_MSG
    /\ (moderationServiceFailed \/ completionServiceFailed \/ imageServiceFailed) => last.response = Undefined

\* the completion service failed for a chat message
C34_Witness ==
    /\ last.op = "chat" /\ completionServiceFailed
    /\ last.request # NoRequest /\ last.completion = Undefined
    /\ last.shown = COMPLETION_FAILED_MSG

\* the image service failed
C34_WitnessImage ==
    /\ last.op = "image" /\ imageServiceFailed /\ last.shown = IMAGE_FAILED_MSG

\* the moderation service failed
C34_WitnessModeration ==
    /\ moderationServiceFailed /\ ~last.inputUp /\ last.shown = GENERIC_ERROR_MSG

(***************************************************************************)
(* Two executions handling messages of one space at the same time.  Each   *)
(* execution reads the script properties once, into its own cache, and     *)
(* writes what it changed back to the store.                               *)
(***************************************************************************)
Executions == {1, 2}
NotLoaded == [loaded |-> FALSE, properties |-> <<>>]

\* getProperties that reads the store at every call
getPropertiesUncached(cache, store) == store

\* getProperties(): the properties cached by the execution, read from the
\* store when nothing is cached yet
getProperties(cache, store) == IF ~cache.loaded THEN store ELSE cache.properties

\* the store after an execution that turned its cached properties into result:
\* setProperty for what it set, deleteProperty for what it deleted
writeBack(store, cached, result) ==
    LET written == {k \in DOMAIN result : k \notin DOMAIN cached \/ cached[k] # result[k]}
        deleted == DOMAIN cached \ DOMAIN result
    IN  [k \in (DOMAIN store \ deleted) \cup written |->
            IF k \in written THEN result[k] ELSE store[k]]

RaceSender(e) == IF e = 1 THEN U1 ELSE U2

RaceEnvironments == {env \in Environments : env.fails = 0}

InitRace ==
    /\ properties \in {BaseProperties,
                       setProperty(BaseProperties, RoomKey, RoomHistory(LedgerOfAges({40})))}
    /\ now = PruneNow
    /\ lastCreate = -1
    /\ last = [op |-> "race",
               pc |-> [e \in Executions |-> "idle"],
               cache |-> [e \in Executions |-> NotLoaded],
               message |-> [e \in Executions |-> Undefined],
               saved |-> [e \in Executions |-> FALSE],
               overlap |-> FALSE]

\* an execution starts for a message and reads the script properties
ExecLoad ==
    \E e \in Executions, text \in ChatTexts :
        /\ last.pc[e] = "idle"
        /\ last' = [last EXCEPT
               !.pc[e] = "loaded",
               !.cache[e] = [loaded |-> TRUE, properties |-> getProperties(NotLoaded, properties)],
               !.message[e] = Message(SpaceRoom, RaceSender(e), now + e, text),
               !.overlap = @ \/ (\E o \in Executions \ {e} : last.pc[o] = "loaded")]
        /\ UNCHANGED <<properties, now, lastCreate>>

\* the execution handles its message and writes the properties it changed
ExecHandle ==
    \E e \in Executions, env \in RaceEnvironments :
        /\ last.pc[e] = "loaded"
        /\ LET cached == getProperties(last.cache[e], properties)
               out == onMessageChat(cached, last.message[e], now, env.inputUp, env.fetch,
                                    env.outputUp, env.fails, TRUE)
           IN  /\ properties' = writeBack(properties, cached, out.properties)
               /\ last' = [last EXCEPT !.pc[e] = "done", !.saved[e] = out.last.saved]
        /\ UNCHANGED <<now, lastCreate>>

NextRace == ExecLoad \/ ExecHandle

SpecRace == InitRace /\ [][NextRace]_vars

\* the ledger stored for the room holds the message of the execution
persisted(e) ==
    \E i \in DOMAIN storedMessages(properties, SpaceRoom.name) :
        storedMessages(properties, SpaceRoom.name)[i] = toChatHistoryMessage(last.message[e])

bothDone == \A e \in Executions : last.pc[e] = "done"

\* C35: when two executions have read the properties before either has
\* written, the ledger stored in the end never holds the messages of both:
\* the later write replaces the earlier one, and no execution finds out
C35_OverlapLosesUpdate ==
    (last.overlap /\ bothDone) => ~(persisted(1) /\ persisted(2))

\* both executions saved their ledger, and the store holds the message of one
C35_Witness ==
    /\ last.overlap /\ bothDone
    /\ last.saved[1] /\ last.saved[2]
    /\ Cardinality({e \in Executions : persisted(e)}) = 1

\* one execution after the other: the store holds both messages
C35_WitnessSequential ==
    /\ ~last.overlap /\ bothDone
    /\ persisted(1) /\ persisted(2)

\* ---------------------------------------------------------------------------
\* "/config temperature"
\* ---------------------------------------------------------------------------

\* the option and the value of the "/config" command handled last
configOption(text) == matchPropertyValue(trim(checkForCommand(text).arg))

temperatureHandled ==
    /\ configHandled
    /\ checkForCommand(last'.text).arg # Undefined
    /\ configOption(last'.text).matched
    /\ configOption(last'.text).name = OPTION_TEMPERATURE

temperatureOf(props, spaceName) ==
    IF hasConfiguration(props, spaceName)
    THEN getConfiguration(props, spaceName).temperature
    ELSE NotGiven

\* C37 as stated: a temperature command without a value clears the
\* temperature, one with a decimal number from 0.0 to 2.0 stores it, and one
\* with any other value ends with a command error and leaves the store as it was
C37_TemperatureRejected ==
    [][temperatureHandled =>
          LET value == configOption(last'.text).rest
              strict == numericOptionValueStrict(OPTION_TEMPERATURE, value)
          IN  IF value = Undefined
              THEN last'.error = "none" /\ temperatureOf(properties', last'.space) = NotGiven
              ELSE IF strict.error = NoError
                      /\ ~belowZero(strict.value[1]) /\ ~aboveTwo(strict.value[1])
              THEN last'.error = "none"
                   /\ temperatureOf(properties', last'.space) = strict.value
              ELSE last'.error = "CommandError" /\ properties' = properties]_vars

\* ---------------------------------------------------------------------------
\* "/again" whose completion request fails
\* ---------------------------------------------------------------------------

\* "/again" took the chat path and requestChatCompletion threw
againRequestFailed ==
    /\ chatAgain
    /\ last'.request # NoRequest
    /\ last'.error # "none"

CMD_HELP == <<"h","e","l","p">>
CMD_HISTORY == <<"h","i","s","t","o","r","y">>
DEFAULT_HELP_TEXT == <<"*","U","s","a","g","e"," ","i","n","s","t","r","u","c","t","i","o","n","s","*">>
HELP_TEXT_ADMIN == <<"*","A","d","m","i","n"," ","c","o","m","m","a","n","d","s","*">>

\* what a command that asks no service and stores no ledger returns
Answered(props, err, text) ==
    [properties |-> props, request |-> NoRequest, completion |-> Undefined, text |-> text,
     save |-> NoSave, moderated |-> Undefined, image |-> NoImageRequest, error |-> err]

\* commandHelp(message)
commandHelp(props, message) ==
    Answered(props, NoError,
             DEFAULT_HELP_TEXT \o (IF isAdmin(props, message) THEN HELP_TEXT_ADMIN ELSE <<>>))

\* a "/history clear" that keeps nothing of the ledger
clearedHistoryAll(history) == [space |-> history.space, messages |-> <<>>]

\* history.messages = []
clearedHistory(history) == [history EXCEPT !.messages = <<>>]

\* the transcript of the response of commandHistory, without the markup
transcript(instructions, messages) ==
    <<instructions, [i \in DOMAIN messages |-> <<messages[i].role, messages[i].text>>]>>

\* commandHistory(arg, message)
commandHistory(props, arg, message, time, fails, deleteOk) ==
    IF getObjectPropertyThrows(props, getHistoryPropertyKey(message))
    THEN Answered(props, OtherError("SyntaxError", "Unexpected token in JSON"), Undefined)
    ELSE LET history == getHistory(props, message, time, TRUE)
             instructions == getInstructions(props, message.space.name)
         IN  IF arg # Undefined /\ toLowerCase(trim(arg)) = <<"c","l","e","a","r">>
             THEN LET save == saveHistory(props, clearedHistory(history), SetOk(fails, 1),
                                          deleteOk, time)
                  IN  [Answered(save.properties, NoError, transcript(instructions, <<>>))
                          EXCEPT !.save = save]
             ELSE IF arg # Undefined
             THEN Answered(props, ChatError("CommandError", INVALID_ARGS_MSG), Undefined)
             ELSE Answered(props, NoError, transcript(instructions, history.messages))

\* the dispatch of checkForCommand: the command named by cmd with arg
commandResponse(props, cmd, arg, message, time, env) ==
    IF cmd = CMD_HELP THEN commandHelp(props, message)
    ELSE IF cmd = CMD_INTRO
    THEN LET out == commandIntro(props, time, env.inputUp, env.fetch, env.outputUp)
         IN  Answered(props, out.error, out.text)
    ELSE IF cmd = CMD_IMAGE
    THEN [request |-> NoRequest, completion |-> Undefined] @@
         commandImage(props, arg, message, time, env.inputUp, env.imageFetch, env.fails, TRUE)
    ELSE IF cmd = CMD_AGAIN
    THEN commandAgain(props, arg, message, time, env.inputUp, env.fetch, env.outputUp,
                      env.imageFetch, env.fails, TRUE)
    ELSE IF cmd = CMD_CONFIG
    THEN LET out == commandConfig(props, arg, message, time, env.inputUp)
         IN  Answered(out.properties, out.error, out.text)
    ELSE IF cmd = CMD_HISTORY
    THEN commandHistory(props, arg, message, time, env.fails, TRUE)
    ELSE IF cmd = CMD_INIT
    THEN LET out == commandInit(props, arg, message)
         IN  Answered(out.properties, out.error, out.text)
    ELSE IF cmd = CMD_SHOW
    THEN LET out == commandShow(props, arg, message)
         IN  Answered(out.properties, out.error, out.text)
    ELSE IF cmd = CMD_SET
    THEN LET out == commandSet(props, arg, message)
         IN  Answered(out.properties, out.error, out.text)
    ELSE Answered(props, ChatError("CommandError", "Unrecognized command"), Undefined)

\* the name of the command in the event records
commandName(cmd) ==
    IF cmd = CMD_HELP THEN "help" ELSE IF cmd = CMD_INTRO THEN "intro"
    ELSE IF cmd = CMD_IMAGE THEN "image" ELSE IF cmd = CMD_AGAIN THEN "again"
    ELSE IF cmd = CMD_CONFIG THEN "config" ELSE IF cmd = CMD_HISTORY THEN "history"
    ELSE IF cmd = CMD_INIT THEN "init" ELSE IF cmd = CMD_SHOW THEN "show"
    ELSE IF cmd = CMD_SET THEN "set" ELSE "unrecognized"

\* onMessage(event): the command of the message when it is one, the chat
\* completion otherwise; the store and the event record after it
onMessage(props, message, time, env) ==
    LET command == checkForCommand(message.text)
    IN  IF command.kind = "format"
        THEN [properties |-> props,
              last |-> Handled("format", message, env.inputUp, NoRequest, Undefined,
                               ChatError("CommandError", UNRECOGNIZED_FORMAT_MSG), Undefined,
                               NoSave)]
        ELSE IF command.kind = "command"
        THEN LET out == commandResponse(props, command.cmd, command.arg, message, time, env)
             IN  [properties |-> out.properties,
                  last |-> Repeated(commandName(command.cmd), message, env.inputUp, out)]
        ELSE onMessageChat(props, message, time, env.inputUp, env.fetch, env.outputUp,
                           env.fails, TRUE)

CmdHelp == <<"/","h","e","l","p">>
CmdIntro == <<"/","i","n","t","r","o">>
CmdConfigInstruct == <<"/","c","o","n","f","i","g"," ","i","n","s","t","r","u","c","t"," ","b","e"," ","b","r","i","e","f">>
CmdHistory == <<"/","h","i","s","t","o","r","y">>
CmdHistoryClear == <<"/","h","i","s","t","o","r","y"," ","C","l","e","a","r">>
CmdUnknown == <<"/","f","o","o">>

\* one message for every command, and what is no command
SuiteTexts ==
    {CmdHelp, CmdIntro, CmdImage, CmdAgain, CmdConfigInstruct, CmdHistory, CmdHistoryClear,
     CmdInit, CmdShow, CmdClearFoo, CmdUnknown, <<"/"," ","x">>, TextHi}

\* what the services do while a message of the suite is handled
SuiteEnvironments ==
    {[inputUp |-> TRUE, fetch |-> fetch, outputUp |-> TRUE, imageFetch |-> "images",
      fails |-> 0] : fetch \in {f \in Fetches : f.content # TextEvil}}

\* a message arrives in the room
OnMessage ==
    \E text \in SuiteTexts, sender \in Senders, env \in SuiteEnvironments :
        LET message == Message(SpaceRoom, sender, now, text)
            out == onMessage(properties, message, now, env)
        IN  /\ handled < MaxEvents
            /\ message.createTime > lastCreate
            /\ properties' = out.properties
            /\ last' = [out.last EXCEPT
                           !.pending = pendingImage(properties, SpaceRoom.name),
                           !.previous = [op |-> last.op, pending |-> last.pending,
                                         error |-> last.error]]
            /\ lastCreate' = message.createTime
            /\ now' = now + HandleMillis

NextCommands == OnMessage

SpecCommands == InitImage /\ [][NextCommands]_vars

\* the message is a command message
isCommandMessage(text) == startsWith(trim(text), COMMAND_PREFIX)

historyCleared ==
    /\ lastCreate' # lastCreate
    /\ last'.op = "history" /\ last'.text = CmdHistoryClear
    /\ last'.error = "none"

\* the image command stored for the room, Undefined when there is none
storedImageCommand(props) ==
    IF pendingImage(props, SpaceRoom.name) THEN props[RoomKey].imageCommand ELSE Undefined

\* "/again" is handled in this step, right after a "/history clear" that
\* found an image command
againAfterClear ==
    /\ lastCreate' # lastCreate
    /\ last'.op = "again" /\ last'.text = CmdAgain
    /\ last.op = "history" /\ last.text = CmdHistoryClear /\ last.error = "none"
    /\ last.pending

====
